---------------------------- MODULE Spec2Model ----------------------------
(***************************************************************************)
(* Freebox integration: the polling router (router.py) and the endpoint    *)
(* command layer of the home entities (base_class.py).                     *)
(*                                                                         *)
(* Every `await` of a remote API call is a suspension point of the         *)
(* cooperative scheduler: the code between two awaits is one action.       *)
(* A poll cycle (update_all) is a task; async_track_time_interval starts   *)
(* a new task at every tick, whatever the state of the earlier ones.       *)
(***************************************************************************)
EXTENDS Integers, Sequences, FiniteSets, Bags, TLC

(* ------------------------------ bounds -------------------------------- *)
\* poll-cycle tasks that may exist at once (slots are reused)
MaxTasks == 2
\* LAN hosts the gateway may report
NumHosts == 1
\* home nodes the gateway may report
NumNodes == 1
\* distinct connection readings (rates)
MaxRate == 1
\* calls the test double of the API client records
MaxCalls == 2
\* endpoints of a node's endpoint list
MaxEndpoints == 2
\* command identifiers 0..MaxCmdId
MaxCmdId == 1
\* endpoint values 0..MaxValue
MaxValue == 1
\* moving operations a shutter entity is asked for
MaxMoves == 1

(* ----------------------------- constants ------------------------------ *)
\* const.py: VALUE_NOT_SET = None.  Command identifiers and endpoint values
\* are naturals; the sentinel is the one value outside them.
VALUE_NOT_SET == -1

\* cover.py 209: the number of hex digits of a shutter state
StateHexLen == 118

\* router.py: self.mac, read from system.get_config() during setup
SelfMac == 0
\* const.py 108-112
PERMISSION_DEFAULT == 1
PERMISSION_HOME == 2
STATUS_PERMISSION_ERROR == 0
STATUS_OK == 1
STATUS_HAS_HOME == 2

HostIds == 1..NumHosts
NodeIds == 1..NumNodes

\* router.py 224-233: the categories update_home_devices keeps
SupportedCategories ==
    {"pir", "camera", "alarm", "dws", "kfb", "basic_shutter", "opener", "shutter"}

\* signal names (router.py 276-299)
signal_device_new == "device-new"
signal_device_update == "device-update"
signal_sensor_update == "sensor-update"
signal_home_device_new == "home-device-new"
signal_home_device_update == "home-device-update"

(* ------------------------- remote API replies ------------------------- *)
Range(s) == {s[i] : i \in DOMAIN s}

\* sequences over S of length 0..n
SeqUpTo(S, n) == UNION {[1..k -> S] : k \in 0..n}

\* lan.get_hosts_list(): host records, ids unique within one result
\* a record carries the fields the gateway knows for the host: the
\* addresses of a host are present only once it has been seen with one
HostRecords ==
    [l2ident : HostIds, active : BOOLEAN]
        \cup [l2ident : HostIds, active : {TRUE}, l3connectivities : {"ipv4"}]
HostLists ==
    {l \in SeqUpTo(HostRecords, NumHosts) :
        \A i, j \in DOMAIN l : i < j => l[i].l2ident < l[j].l2ident}

\* home.get_home_nodes(): node records, ids unique within one result
NodeCategories == {"pir", "light"}
NodeLabels == {"a", "b"}
HomeNodeRecords == [id : NodeIds, category : NodeCategories, label : NodeLabels]
HomeNodeLists ==
    {l \in SeqUpTo(HomeNodeRecords, NumNodes) :
        \A i, j \in DOMAIN l : i < j => l[i].id < l[j].id}

\* system.get_config(): one temperature sensor, with or without a value
SystReplies ==
    {[sensors |-> <<[name |-> "cpu", value |-> 1]>>, serial |-> "s"],
     [sensors |-> <<[name |-> "cpu"]>>, serial |-> "s"]}

\* connection.get_status()
ConnReplies ==
    {[rate_down |-> r, rate_up |-> r, media |-> "ftth"] : r \in 1..MaxRate}

\* call.get_calls_log()
CallLogs == {<<>>, <<[type |-> "missed", new |-> TRUE]>>}

\* storage.get_disks(): None at first request, or a list of disks
NoDisks == [is_none |-> TRUE, value |-> <<>>]
DiskReplies ==
    {NoDisks} \cup {[is_none |-> FALSE, value |-> l] :
                        l \in {<<>>, <<[id |-> 1, model |-> "m"]>>}}

(* ------------------------------- state -------------------------------- *)
VARIABLES
    phase,              \* life of the router: setup, ready, teardown
    api,                \* self._api: "None" or "open"
    use_home,           \* self._use_home
    timer,              \* the interval timer of update_all is registered
    inflight,           \* the bag of poll cycles suspended on a remote call:
                        \* the await each is at, with the locals it holds
    devices,            \* self.devices
    attrs,              \* self._attrs
    sensors_temperature,\* self.sensors_temperature
    sensors_connection, \* self.sensors_connection
    call_list,          \* self.call_list
    disks,              \* self.disks
    home_devices,       \* self.home_devices
    warning_once,       \* self._warning_once
    node_warnings,      \* "Node not supported" lines logged
    denied_once,        \* "Home access is not granted" was logged
    last,               \* what the last step did: the handler that ran, the
                        \* signals it dispatched, how its coroutine ended
    resolved,           \* the last get_command_id call: arguments and result
    entity,             \* a home entity: self._id and the accessor call it
                        \* is suspended in
    returned,           \* how the entity's last accessor call ended
    home_calls,         \* the calls the API client's home endpoint received
                        \* through the entity's accessors
    adapter,            \* a cover entity: the object self._node refers to
                        \* and whether the cache holds that same object,
                        \* the commands it resolved, self._state
    watchers,           \* the entities that poll their own endpoint
                        \* (FreeboxPir, FreeboxDws): timer, call in flight,
                        \* self._detection, self._had_timeout
    platforms,          \* the entity platforms: the `tracked` set of each
                        \* and the entities its add_entities built
    flow                \* the config flow's check_freebox_permission: its
                        \* calls in progress, the clients, the token file

caches ==
    <<devices, attrs, sensors_temperature, sensors_connection, call_list,
      disks, home_devices, warning_once, node_warnings>>

routerVars == <<phase, api, use_home, timer, inflight, caches, denied_once, last>>

entityVars == <<resolved, entity, returned, home_calls>>

adapterVars == <<adapter, watchers, platforms, flow>>

vars == <<routerVars, entityVars, adapterVars>>

EmptyMap == [x \in {} |-> 0]
NoAttrs == [x \in {} |-> 0]
\* a local that holds nothing (yet, or any more)
NoData == [sensors |-> <<>>, serial |-> ""]

\* the awaits of update_all, in program order (router.py 146, 176, 185,
\* 200, 209, 218)
Awaiting ==
    {"get_hosts_list", "get_config", "get_status", "get_calls_log", "get_disks",
     "get_home_nodes"}

\* a suspended cycle: the call it awaits and the locals it still reads
\* (syst_datas, router.py 176, is read again at 194 and 197)
Suspended(pc, syst_datas) == [pc |-> pc, syst_datas |-> syst_datas]
TaskStates ==
    {Suspended(pc, NoData) : pc \in Awaiting}
        \cup {Suspended("get_status", s) : s \in SystReplies}

Event(op, sent, ended) == [op |-> op, sent |-> sent, ended |-> ended]

\* no lookup made, no accessor call made
NotResolved == [nodes |-> <<>>, ep_type |-> "", name |-> "", id |-> VALUE_NOT_SET]
\* how an accessor call ended: returned or raised, the value returned by
\* get, the boolean returned by set, the line it logged
Ret(op, how, value, success, logged) ==
    [op |-> op, how |-> how, value |-> value, success |-> success, logged |-> logged]
NoCall == Ret("none", "returned", VALUE_NOT_SET, FALSE, "")
NoHomeCalls ==
    [gets |-> 0, sets |-> 0,
     last |-> [method |-> "none", node_id |-> 0, command_id |-> VALUE_NOT_SET,
               value |-> VALUE_NOT_SET]]
IdleEntity(id) ==
    [id |-> id, pc |-> "idle", command_id |-> VALUE_NOT_SET, value |-> VALUE_NOT_SET]

\* no cover entity, no watching entity (no home node is known yet)
NoNode == [id |-> 0, category |-> "", label |-> "", show_endpoints |-> <<>>]
NoCommands == [up |-> VALUE_NOT_SET, stop |-> VALUE_NOT_SET, down |-> VALUE_NOT_SET]
\* no endpoint given as sub_node (base_class.py 20: sub_node=None)
NoSubNode == [name |-> "", label |-> ""]
\* base_class.py 28, 33-34, 86-91: the entity's name is the label of the
\* node, followed by the label of the sub_node if it has one (the parts
\* are kept apart here; the labels carry no outer blanks to strip)
Name(node, sub_node) ==
    IF sub_node = NoSubNode THEN <<node.label>> ELSE <<node.label, sub_node.label>>
NoAdapter ==
    [exists |-> FALSE, shared |-> FALSE, signalled |-> FALSE, node |-> NoNode,
     sub_node |-> NoSubNode, name |-> <<>>, commands |-> NoCommands, state |-> "None"]
NoWatchers == [w \in {} |-> 0]

\* cover.py 32, camera.py 39, alarm_control_panel.py 32, binary_sensor.py
\* 24, sensor.py 41: tracked = set(), and no entity yet; `seen` keeps the
\* node ids the loop of add_entities has come to
PlatformNames == {"cover", "camera", "alarm_control_panel", "binary_sensor", "sensor"}
NoPlatforms ==
    [p \in PlatformNames |-> [tracked |-> {}, seen |-> {}, built |-> EmptyMap]]

\* config_flow.py 210: no call of check_freebox_permission in progress;
\* the token file of an earlier authorisation may exist
NoFlow ==
    [stack |-> <<>>, clients |-> <<>>, token |-> TRUE, resets |-> 0,
     status |-> VALUE_NOT_SET, errors |-> ""]

EntityInit(ids) ==
    /\ adapter = NoAdapter
    /\ watchers = NoWatchers
    /\ platforms = NoPlatforms
    /\ flow = NoFlow
    /\ resolved = NotResolved
    /\ entity \in {IdleEntity(id) : id \in ids}
    /\ returned = NoCall
    /\ home_calls = NoHomeCalls

\* router.py 80-106: FreeboxRouter.__init__
Init ==
    /\ EntityInit({1})
    /\ phase = "new"
    /\ api = "None"
    /\ use_home \in BOOLEAN
    /\ timer = FALSE
    /\ inflight = EmptyBag
    /\ devices = EmptyMap
    /\ attrs = NoAttrs
    /\ sensors_temperature = EmptyMap
    /\ sensors_connection = EmptyMap
    /\ call_list = <<>>
    /\ disks = EmptyMap
    /\ home_devices = EmptyMap
    /\ warning_once = FALSE
    /\ node_warnings = 0
    /\ denied_once = FALSE
    /\ last = Event("__init__", <<>>, "no")

(* ------------------------------ helpers ------------------------------- *)
\* a faulty upsert: dict.setdefault(k, v), the stored record is kept
PutIfAbsent(m, k, v) ==
    [x \in (DOMAIN m) \cup {k} |-> IF x \in DOMAIN m THEN m[x] ELSE v]

\* dict[k] = v
Put(m, k, v) == [x \in (DOMAIN m) \cup {k} |-> IF x = k THEN v ELSE m[x]]

\* router.py 163, 238: `self.devices.get(key) is None`
IsNone(m, k) == k \notin DOMAIN m

\* router.py 149-158: the record of the Freebox itself
SelfRecord ==
    [l2ident |-> SelfMac, host_type |-> "router", active |-> TRUE, attrs |-> attrs]

\* a faulty loop: it is suspended after its first upsert, and what it has
\* done so far is what the other tasks see
DeviceLoopInterrupted(cache, new_device, fbx_devices, i) ==
    LET fbx_device == fbx_devices[1]
        device_mac == fbx_device.l2ident
    IN [cache |-> Put(cache, device_mac, fbx_device),
        new_device |-> new_device \/ IsNone(cache, device_mac)]

\* a faulty loop: the fetched fields are merged into the stored record
\* (self.devices[device_mac].update(fbx_device))
RECURSIVE DeviceLoopMerging(_, _, _, _)
DeviceLoopMerging(cache, new_device, fbx_devices, i) ==
    IF i > Len(fbx_devices)
    THEN [cache |-> cache, new_device |-> new_device]
    ELSE LET fbx_device == fbx_devices[i]
             device_mac == fbx_device.l2ident
             merged ==
                 IF IsNone(cache, device_mac)
                 THEN fbx_device
                 ELSE [f \in DOMAIN cache[device_mac] \cup DOMAIN fbx_device |->
                          IF f \in DOMAIN fbx_device
                          THEN fbx_device[f]
                          ELSE cache[device_mac][f]]
         IN DeviceLoopMerging(Put(cache, device_mac, merged),
                              new_device \/ IsNone(cache, device_mac),
                              fbx_devices, i + 1)

\* router.py 160-166: the loop of update_device_trackers
RECURSIVE DeviceLoop(_, _, _, _)
DeviceLoop(cache, new_device, fbx_devices, i) ==
    IF i > Len(fbx_devices)
    THEN [cache |-> cache, new_device |-> new_device]
    ELSE LET fbx_device == fbx_devices[i]
             device_mac == fbx_device.l2ident
         IN DeviceLoop(Put(cache, device_mac, fbx_device),
                       new_device \/ IsNone(cache, device_mac),
                       fbx_devices, i + 1)

\* a faulty update_device_trackers: "new device" sent whatever the flag
DeviceSignalsAlwaysNew(new_device) ==
    <<signal_device_update, signal_device_new>>

\* router.py 168-171: the notifications of update_device_trackers
DeviceSignals(new_device) ==
    IF new_device
    THEN <<signal_device_update, signal_device_new>>
    ELSE <<signal_device_update>>

\* router.py 180-182: temperature sensors that carry a value
RECURSIVE TemperatureLoop(_, _, _)
TemperatureLoop(temps, sensors, i) ==
    IF i > Len(sensors)
    THEN temps
    ELSE LET sensor == sensors[i]
         IN TemperatureLoop(
                IF "value" \in DOMAIN sensor
                THEN Put(temps, sensor.name, sensor.value)
                ELSE temps,
                sensors, i + 1)

\* router.py 186-187: CONNECTION_SENSORS (const.py 44-57)
ConnectionSensors(connection_datas) ==
    [sensor_key \in {"rate_down", "rate_up"} |-> connection_datas[sensor_key]]

\* router.py 189-198: self._attrs
Attrs(connection_datas, syst_datas) ==
    [connection_type |-> connection_datas.media, serial |-> syst_datas.serial]

\* router.py 209: `get_disks() or []`
DisksOrEmpty(reply) == IF reply.is_none THEN <<>> ELSE reply.value

\* a faulty loop: the cache is rebuilt from the fetched list
\* (self.disks = {} before the loop)
RECURSIVE DiskLoopFresh(_, _, _)
DiskLoopFresh(cache, fbx_disks, i) ==
    LET kept == IF i = 1 THEN EmptyMap ELSE cache
    IN IF i > Len(fbx_disks)
       THEN kept
       ELSE DiskLoopFresh(Put(kept, fbx_disks[i].id, fbx_disks[i]), fbx_disks, i + 1)

\* router.py 211-212: one upsert per disk
RECURSIVE DiskLoop(_, _, _)
DiskLoop(cache, fbx_disks, i) ==
    IF i > Len(fbx_disks)
    THEN cache
    ELSE DiskLoop(Put(cache, fbx_disks[i].id, fbx_disks[i]), fbx_disks, i + 1)

\* a faulty loop: the cache is rebuilt from the polled list
\* (self.home_devices = {} before the loop)
RECURSIVE HomeLoopFresh(_, _, _, _, _)
HomeLoopFresh(cache, new_device, warned, home_nodes, i) ==
    LET kept == IF i = 1 THEN EmptyMap ELSE cache
    IN IF i > Len(home_nodes)
       THEN [cache |-> kept, new_device |-> new_device, warned |-> warned]
       ELSE LET home_node == home_nodes[i]
            IN IF home_node.category \notin SupportedCategories
               THEN HomeLoopFresh(kept, new_device,
                                  IF warning_once = FALSE THEN warned + 1 ELSE warned,
                                  home_nodes, i + 1)
               ELSE HomeLoopFresh(Put(kept, home_node.id, home_node),
                                  new_device \/ IsNone(kept, home_node.id),
                                  warned, home_nodes, i + 1)

\* a faulty loop: no category filter, every node of the reply is stored
RECURSIVE HomeLoopUnfiltered(_, _, _, _, _)
HomeLoopUnfiltered(cache, new_device, warned, home_nodes, i) ==
    IF i > Len(home_nodes)
    THEN [cache |-> cache, new_device |-> new_device, warned |-> warned]
    ELSE LET home_node == home_nodes[i]
         IN HomeLoopUnfiltered(Put(cache, home_node.id, home_node),
                               new_device \/ IsNone(cache, home_node.id),
                               warned, home_nodes, i + 1)

\* router.py 223-240: the loop of update_home_devices
RECURSIVE HomeLoop(_, _, _, _, _)
HomeLoop(cache, new_device, warned, home_nodes, i) ==
    IF i > Len(home_nodes)
    THEN [cache |-> cache, new_device |-> new_device, warned |-> warned]
    ELSE LET home_node == home_nodes[i]
         IN IF home_node.category \notin SupportedCategories
            THEN HomeLoop(cache, new_device,
                          IF warning_once = FALSE THEN warned + 1 ELSE warned,
                          home_nodes, i + 1)
            ELSE HomeLoop(Put(cache, home_node.id, home_node),
                          new_device \/ IsNone(cache, home_node.id),
                          warned, home_nodes, i + 1)

\* a faulty update_home_devices: "new home device" is sent with every update
HomeSignalsAlwaysNew(new_device) ==
    <<signal_home_device_update, signal_home_device_new>>

\* router.py 244-247: the notifications of update_home_devices
HomeSignals(new_device) ==
    IF new_device
    THEN <<signal_home_device_update, signal_home_device_new>>
    ELSE <<signal_home_device_update>>

\* a faulty update_all: the home step is given up once access was denied
AfterSensorsUnlessDenied(home) ==
    IF home /\ ~denied_once THEN "get_home_nodes" ELSE "returned"

\* a faulty update_all: the home step runs whatever the option says
AfterSensorsAlways(home) == "get_home_nodes"

\* router.py 140-141: what update_all does after update_sensors
AfterSensors(home) == IF home THEN "get_home_nodes" ELSE "returned"

\* The next remote call is made through self._api: once close() has set
\* it to None the attribute access raises and the cycle ends there.
Await(next) == IF api = "None" /\ next \in Awaiting THEN "raised" ELSE next

\* the cycles in flight
InFlightCycles == BagCardinality(inflight)

\* router.py 130-134: setup awaits the first update_all, then registers the
\* timer; an exception of the first cycle leaves setup before line 132.
PhaseAfter(next) ==
    IF phase = "first_poll"
    THEN IF next = "returned" THEN "ready"
         ELSE IF next = "raised" THEN "setup_error" ELSE phase
    ELSE phase

\* a faulty poller: a cycle that raises cancels the timer
TimerAfterStopsOnError(next) ==
    IF next = "raised" THEN FALSE
    ELSE IF phase = "first_poll" /\ next = "returned" THEN TRUE ELSE timer

\* a faulty setup: the timer is registered before the first cycle is awaited
TimerAfterEarly(next) == IF phase = "first_poll" THEN TRUE ELSE timer

\* router.py 132-134, 136-141: the timer is registered once, after the
\* first cycle; update_all never touches it, whatever the cycle's outcome.
TimerAfter(next) ==
    IF phase = "first_poll" /\ next = "returned" THEN TRUE ELSE timer

Ended(next) == IF next \in Awaiting THEN "no" ELSE next

\* one more cycle suspended in state s
Add(bag, s) == bag (+) SetToBag({s})
Remove(bag, s) == bag (-) SetToBag({s})

\* the cycle suspended in `from` resumes, runs handler `op`, dispatches
\* `sent` and suspends again at `next` (or ends)
Resume(from, op, next, syst_datas, sent) ==
    /\ BagIn(from, inflight)
    /\ inflight' = IF next \in Awaiting
                   THEN Add(Remove(inflight, from), Suspended(next, syst_datas))
                   ELSE Remove(inflight, from)
    /\ phase' = PhaseAfter(next)
    /\ timer' = TimerAfter(next)
    /\ last' = Event(op, sent, Ended(next))

\* a faulty update_all: the sensor step is started first
StartCycleAtSensors(op) ==
    /\ inflight' = Add(inflight, Suspended(Await("get_config"), NoData))
    /\ last' = Event(op, <<>>, "no")

\* update_all is entered and suspends on get_hosts_list (router.py 136-146)
StartCycle(op) ==
    /\ inflight' = Add(inflight, Suspended(Await("get_hosts_list"), NoData))
    /\ last' = Event(op, <<>>, "no")

(* ------------------------------- setup -------------------------------- *)
\* router.py 108-115: get_api, then await self._api.open(...)
SetupStart ==
    /\ phase = "new"
    /\ phase' = "open"
    /\ api' = "open"
    /\ last' = Event("setup", <<>>, "no")
    /\ UNCHANGED <<entityVars, adapterVars, use_home, timer, inflight, caches, denied_once>>

\* router.py 115-118: the connection is open; await system.get_config()
SetupOpened ==
    /\ phase = "open"
    /\ phase' = "get_config"
    /\ last' = Event("setup", <<>>, "no")
    /\ UNCHANGED <<entityVars, adapterVars, api, use_home, timer, inflight, caches, denied_once>>

\* a faulty setup: the failure is logged and setup goes on to poll
SetupFailureIgnored ==
    /\ phase \in {"open", "get_config"}
    /\ phase' = "first_poll"
    /\ StartCycle("setup")
    /\ UNCHANGED <<entityVars, adapterVars, api, use_home, timer, caches, denied_once>>

\* router.py 123-128: any failure of open or get_config: ConfigEntryNotReady
SetupNotReady ==
    /\ phase \in {"open", "get_config"}
    /\ phase' = "not_ready"
    /\ last' = Event("setup", <<>>, "raised")
    /\ UNCHANGED <<entityVars, adapterVars, api, use_home, timer, inflight, caches, denied_once>>

\* router.py 118-131: config fetched; setup calls update_all itself
SetupFirstPoll ==
    /\ phase = "get_config"
    /\ phase' = "first_poll"
    /\ StartCycle("setup")
    /\ UNCHANGED <<entityVars, adapterVars, api, use_home, timer, caches, denied_once>>

(* ----------------------------- poll cycle ----------------------------- *)
\* router.py 132-136: a tick of async_track_time_interval starts update_all
\* as a new task; nothing looks at the cycles already running.
TimerTick ==
    /\ timer
    /\ InFlightCycles < MaxTasks
    /\ StartCycle("update_all")
    /\ UNCHANGED <<entityVars, adapterVars, phase, api, use_home, timer, caches, denied_once>>

\* router.py 143-171: get_hosts_list returned; the rest of
\* update_device_trackers runs, then update_sensors up to its first await
HostsReturn(hosts) ==
    /\ LET fbx_devices == Append(hosts, SelfRecord)
           r == DeviceLoop(devices, FALSE, fbx_devices, 1)
       IN /\ devices' = r.cache
          /\ Resume(Suspended("get_hosts_list", NoData), "update_device_trackers",
                    Await("get_config"), NoData, DeviceSignals(r.new_device))
    /\ UNCHANGED <<entityVars, adapterVars, api, use_home, attrs, sensors_temperature, sensors_connection,
                   call_list, disks, home_devices, warning_once, node_warnings,
                   denied_once>>

\* router.py 176-185: get_config returned
ConfigReturn(syst_datas) ==
    /\ sensors_temperature' =
           TemperatureLoop(sensors_temperature, syst_datas.sensors, 1)
    /\ Resume(Suspended("get_config", NoData), "update_sensors",
              Await("get_status"), syst_datas, <<>>)
    /\ UNCHANGED <<entityVars, adapterVars, api, use_home, devices, attrs, sensors_connection, call_list,
                   disks, home_devices, warning_once, node_warnings, denied_once>>

\* router.py 185-200: get_status returned
StatusReturn(syst_datas, connection_datas) ==
    /\ sensors_connection' = ConnectionSensors(connection_datas)
    /\ attrs' = Attrs(connection_datas, syst_datas)
    /\ Resume(Suspended("get_status", syst_datas), "update_sensors",
              Await("get_calls_log"), NoData, <<>>)
    /\ UNCHANGED <<entityVars, adapterVars, api, use_home, devices, sensors_temperature, call_list, disks,
                   home_devices, warning_once, node_warnings, denied_once>>

\* router.py 200-209: get_calls_log returned
CallsReturn(calls) ==
    /\ call_list' = calls
    /\ Resume(Suspended("get_calls_log", NoData), "update_sensors",
              Await("get_disks"), NoData, <<>>)
    /\ UNCHANGED <<entityVars, adapterVars, api, use_home, devices, attrs, sensors_temperature,
                   sensors_connection, disks, home_devices, warning_once,
                   node_warnings, denied_once>>

\* a faulty update_sensors: the notification is sent only if a disk changed
DisksReturnIfChanged(reply) ==
    /\ disks' = DiskLoop(disks, DisksOrEmpty(reply), 1)
    /\ Resume(Suspended("get_disks", NoData), "update_sensors",
              Await(AfterSensors(use_home)), NoData,
              IF disks' # disks THEN <<signal_sensor_update>> ELSE <<>>)
    /\ UNCHANGED <<entityVars, adapterVars, api, use_home, devices, attrs, sensors_temperature,
                   sensors_connection, call_list, home_devices, warning_once,
                   node_warnings, denied_once>>

\* router.py 209-212, 204, 140-141, 216-218: get_disks returned
DisksReturn(reply) ==
    /\ disks' = DiskLoop(disks, DisksOrEmpty(reply), 1)
    /\ Resume(Suspended("get_disks", NoData), "update_sensors",
              Await(AfterSensors(use_home)), NoData, <<signal_sensor_update>>)
    /\ UNCHANGED <<entityVars, adapterVars, api, use_home, devices, attrs, sensors_temperature,
                   sensors_connection, call_list, home_devices, warning_once,
                   node_warnings, denied_once>>

\* router.py 240, 244; base_class.py 25, 185-189: the step stores the
\* records of the reply, which are new objects: an entity whose node was
\* polled no longer holds the object of the cache, and the update signal
\* it listens to has been sent
AfterPoll(upserted) ==
    IF adapter.exists
    THEN [adapter EXCEPT !.shared = @ /\ adapter.node.id \notin upserted,
                         !.signalled = TRUE]
    ELSE adapter

\* router.py 218, 223-247: get_home_nodes returned
HomeReturn(home_nodes) ==
    /\ LET r == HomeLoop(home_devices, FALSE, 0, home_nodes, 1)
       IN /\ home_devices' = r.cache
          /\ node_warnings' = node_warnings + r.warned
          /\ warning_once' = TRUE
          /\ adapter' = AfterPoll(DOMAIN HomeLoop(EmptyMap, FALSE, 0, home_nodes, 1).cache)
          /\ Resume(Suspended("get_home_nodes", NoData), "update_home_devices",
                    "returned", NoData, HomeSignals(r.new_device))
    /\ UNCHANGED <<entityVars, watchers, platforms, flow, api, use_home, devices, attrs,
                   sensors_temperature, sensors_connection, call_list, disks, denied_once>>

\* a faulty update_home_devices: no `except`, the permission error propagates
HomeDeniedRaises ==
    /\ denied_once' = TRUE
    /\ Resume(Suspended("get_home_nodes", NoData), "update_home_devices",
              "raised", NoData, <<>>)
    /\ UNCHANGED <<entityVars, adapterVars, api, use_home, caches>>

\* router.py 219-221: InsufficientPermissionsError: warn and return
HomeDenied ==
    /\ denied_once' = TRUE
    /\ Resume(Suspended("get_home_nodes", NoData), "update_home_devices",
              "returned", NoData, <<>>)
    /\ UNCHANGED <<entityVars, adapterVars, api, use_home, caches>>

\* a faulty update_all: the exception of a step is caught and the cycle
\* goes on with the sensor step
RemoteErrorGoesOn(s) ==
    /\ Resume(s, "update_all", Await("get_config"), NoData, <<>>)
    /\ UNCHANGED <<entityVars, adapterVars, api, use_home, caches, denied_once>>

\* any other exception of an awaited call leaves update_all
\* (router.py 138-141 catch nothing; 219 catches the permission error only)
RemoteError(s) ==
    /\ Resume(s, "update_all", "raised", NoData, <<>>)
    /\ UNCHANGED <<entityVars, adapterVars, api, use_home, caches, denied_once>>

(* ------------------------------ teardown ------------------------------ *)
\* router.py 253-256: close() awaits self._api.close()
CloseBegin ==
    /\ phase = "ready"
    /\ api # "None"
    /\ phase' = "closing"
    /\ last' = Event("close", <<>>, "no")
    /\ UNCHANGED <<entityVars, adapterVars, api, use_home, timer, inflight, caches, denied_once>>

\* router.py 257-263: then drops the client and cancels the timer
CloseEnd ==
    /\ phase = "closing"
    /\ api' = "None"
    /\ timer' = FALSE
    /\ phase' = "closed"
    /\ last' = Event("close", <<>>, "returned")
    /\ UNCHANGED <<entityVars, adapterVars, use_home, inflight, caches, denied_once>>

\* a faulty close(): no `if self._api is not None`, the second call uses
\* the client it has dropped and raises
CloseAgainUnguarded ==
    /\ phase = "closed"
    /\ last' = Event("close_again", <<>>, "raised")
    /\ UNCHANGED <<entityVars, adapterVars, phase, api, use_home, timer, inflight,
                   caches, denied_once>>

\* router.py 253-263: close() called on a router that was closed: the
\* client is None and line 256 is skipped; the unsubscribe function, which
\* close() keeps, is called again and cancels the cancelled timer
CloseAgain ==
    /\ phase = "closed"
    /\ api = "None"
    /\ timer' = FALSE
    /\ last' = Event("close_again", <<>>, "returned")
    /\ UNCHANGED <<entityVars, adapterVars, phase, api, use_home, inflight, caches,
                   denied_once>>

(* ------------------------- endpoint directory ------------------------- *)
CommandIds == 0..MaxCmdId
Values == 0..MaxValue
EpTypes == {"signal", "slot"}
EpNames == {"state", "up"}
Endpoints == [id : CommandIds, ep_type : EpTypes, name : EpNames]
EndpointLists == SeqUpTo(Endpoints, MaxEndpoints)

\* a faulty filter: the endpoint's kind is not compared
RECURSIVE FirstMatchByName(_, _, _, _)
FirstMatchByName(nodes, ep_type, name, i) ==
    IF i > Len(nodes)
    THEN 0
    ELSE IF nodes[i].name = name
         THEN i
         ELSE FirstMatchByName(nodes, ep_type, name, i + 1)

\* base_class.py 140-143: next(filter(lambda x: x["name"] == name and
\* x["ep_type"] == ep_type, nodes), None); 0 stands for None
RECURSIVE FirstMatch(_, _, _, _)
FirstMatch(nodes, ep_type, name, i) ==
    IF i > Len(nodes)
    THEN 0
    ELSE IF nodes[i].name = name /\ nodes[i].ep_type = ep_type
         THEN i
         ELSE FirstMatch(nodes, ep_type, name, i + 1)

\* base_class.py 138-149
get_command_id(nodes, ep_type, name) ==
    LET node == FirstMatch(nodes, ep_type, name, 1)
    IN IF node = 0 THEN VALUE_NOT_SET ELSE nodes[node].id

\* an entity resolves one of its commands
Resolve(nodes, ep_type, name) ==
    /\ resolved = NotResolved
    /\ resolved' = [nodes |-> nodes, ep_type |-> ep_type, name |-> name,
                    id |-> get_command_id(nodes, ep_type, name)]
    /\ UNCHANGED <<routerVars, adapterVars, entity, returned, home_calls>>

(* ----------------------- remote value accessor ------------------------ *)
\* a faulty accessor: the guard is missing
IsNotSetNever(command_id) == FALSE

\* a faulty accessor: `if not command_id`, which also rejects identifier 0
IsNotSetFalsy(command_id) == command_id = VALUE_NOT_SET \/ command_id = 0

\* base_class.py 112, 124: `command_id == VALUE_NOT_SET`
IsNotSet(command_id) == command_id = VALUE_NOT_SET

\* base_class.py 136: node.get("value", VALUE_NOT_SET)
ValueOf(node) == IF "value" \in DOMAIN node THEN node.value ELSE VALUE_NOT_SET

\* a faulty accessor: no `except TimeoutError`, the timeout propagates
GetTimeoutRaises == Ret("get", "raised", VALUE_NOT_SET, FALSE, "")

\* base_class.py 133-135: `except TimeoutError`: warn, return VALUE_NOT_SET
GetTimedOut ==
    Ret("get", "returned", VALUE_NOT_SET, FALSE,
        "The Freebox API Timeout during a value retrieval")

\* home.get_home_endpoint_value(): the node of the endpoint, which may
\* carry no value, or a value that is None
EndpointReplies ==
    {[value |-> v] : v \in Values \cup {VALUE_NOT_SET}} \cup {[refresh |-> 0]}

\* the value argument of set_home_endpoint_value: {"value": v}
SetValues == Values \cup {VALUE_NOT_SET}

Called(method, command_id, value) ==
    [gets |-> home_calls.gets + (IF method = "get" THEN 1 ELSE 0),
     sets |-> home_calls.sets + (IF method = "set" THEN 1 ELSE 0),
     last |-> [method |-> method, node_id |-> entity.id,
               command_id |-> command_id, value |-> value]]

Pending(op) == Ret(op, "pending", VALUE_NOT_SET, FALSE, "")

\* base_class.py 122-132: get_home_endpoint_value up to its await
GetCall(command_id) ==
    /\ entity.pc = "idle"
    /\ IF IsNotSet(command_id)
       THEN /\ returned' = Ret("get", "returned", VALUE_NOT_SET, FALSE,
                                "Unable to GET a value through the API")
            /\ UNCHANGED <<entity, home_calls>>
       ELSE /\ home_calls.gets + home_calls.sets < MaxCalls
            /\ home_calls' = Called("get", command_id, VALUE_NOT_SET)
            /\ entity' = [entity EXCEPT !.pc = "get", !.command_id = command_id]
            /\ returned' = Pending("get")
    /\ UNCHANGED <<routerVars, adapterVars, resolved>>

\* base_class.py 130-136: the remote call returned the endpoint's node
GetReply(node) ==
    /\ entity.pc = "get"
    /\ entity' = [entity EXCEPT !.pc = "idle"]
    /\ returned' = Ret("get", "returned", ValueOf(node), FALSE, "")
    /\ UNCHANGED <<routerVars, adapterVars, resolved, home_calls>>

\* base_class.py 133-135: the remote call timed out
GetTimeout ==
    /\ entity.pc = "get"
    /\ entity' = [entity EXCEPT !.pc = "idle"]
    /\ returned' = GetTimedOut
    /\ UNCHANGED <<routerVars, adapterVars, resolved, home_calls>>

\* a faulty accessor: set writes the value into the cached node as well
SetCallWritesCache(command_id, value) ==
    /\ entity.pc = "idle"
    /\ IF IsNotSet(command_id)
       THEN /\ returned' = Ret("set", "returned", VALUE_NOT_SET, FALSE,
                                "Unable to SET a value through the API")
            /\ UNCHANGED <<entity, home_calls, home_devices>>
       ELSE /\ home_calls.gets + home_calls.sets < MaxCalls
            /\ home_calls' = Called("set", command_id, value)
            /\ entity' = [entity EXCEPT !.pc = "set", !.command_id = command_id,
                                        !.value = value]
            /\ returned' = Pending("set")
            /\ home_devices' =
                   Put(home_devices, entity.id,
                       [id |-> entity.id, category |-> "pir", label |-> "set"])
    /\ UNCHANGED <<phase, api, use_home, timer, inflight, devices, attrs,
                   sensors_temperature, sensors_connection, call_list, disks,
                   warning_once, node_warnings, denied_once, last, resolved,
                   adapterVars>>

\* base_class.py 110-119: set_home_endpoint_value up to its await
SetCall(command_id, value) ==
    /\ entity.pc = "idle"
    /\ IF IsNotSet(command_id)
       THEN /\ returned' = Ret("set", "returned", VALUE_NOT_SET, FALSE,
                                "Unable to SET a value through the API")
            /\ UNCHANGED <<entity, home_calls>>
       ELSE /\ home_calls.gets + home_calls.sets < MaxCalls
            /\ home_calls' = Called("set", command_id, value)
            /\ entity' = [entity EXCEPT !.pc = "set", !.command_id = command_id,
                                        !.value = value]
            /\ returned' = Pending("set")
    /\ UNCHANGED <<routerVars, adapterVars, resolved>>

\* base_class.py 117-120: the remote call returned
SetReply ==
    /\ entity.pc = "set"
    /\ entity' = [entity EXCEPT !.pc = "idle"]
    /\ returned' = Ret("set", "returned", VALUE_NOT_SET, TRUE, "")
    /\ UNCHANGED <<routerVars, adapterVars, resolved, home_calls>>

\* an exception of the remote call that the accessor does not catch:
\* any exception in set (base_class.py 117), any but TimeoutError in get
\* (base_class.py 129-133)
AccessorError ==
    /\ entity.pc \in {"get", "set"}
    /\ entity' = [entity EXCEPT !.pc = "idle"]
    /\ returned' = Ret(entity.pc, "raised", VALUE_NOT_SET, FALSE, "")
    /\ UNCHANGED <<routerVars, adapterVars, resolved, home_calls>>

(* ---------------------------- cover entity ---------------------------- *)
\* A basic shutter as the gateway reports it: the slots of its three
\* commands and the signal of its state.  Endpoint values are JSON
\* booleans or null: 0 is false, 1 is true, VALUE_NOT_SET is null.
ShutterNode(value) ==
    [id |-> 1, category |-> "basic_shutter", label |-> "a",
     show_endpoints |->
        <<[id |-> 0, ep_type |-> "slot", name |-> "up"],
          [id |-> 1, ep_type |-> "slot", name |-> "stop"],
          [id |-> 2, ep_type |-> "slot", name |-> "down"],
          [id |-> 3, ep_type |-> "signal", name |-> "state", value |-> value]>>]
ShutterLists == {<<ShutterNode(value)>> : value \in {0, 1}}

\* base_class.py 151-165: get_value reads the entity's own node
get_value(node, ep_type, name) ==
    LET i == FirstMatch(node.show_endpoints, ep_type, name, 1)
    IN IF i = 0 THEN VALUE_NOT_SET ELSE ValueOf(node.show_endpoints[i])

\* cover.py 103-110: convert_state
convert_state(state) ==
    IF state # VALUE_NOT_SET /\ state # 0
    THEN "closed"
    ELSE IF state # VALUE_NOT_SET THEN "open" ELSE "None"

\* cover.py 59-67, base_class.py 25: FreeboxBasicShutter.__init__ keeps the
\* node object it is given, which add_entities (cover.py 42-46) takes from
\* router.home_devices
FreeboxBasicShutter(node) ==
    [exists |-> TRUE, shared |-> TRUE, signalled |-> FALSE, node |-> node,
     sub_node |-> NoSubNode, name |-> Name(node, NoSubNode),
     commands |->
        [up |-> get_command_id(node.show_endpoints, "slot", "up"),
         stop |-> get_command_id(node.show_endpoints, "slot", "stop"),
         down |-> get_command_id(node.show_endpoints, "slot", "down")],
     state |-> convert_state(get_value(node, "signal", "state"))]

\* cover.py 76-82: is_closed, read from the state the entity keeps
\* (False, True, None)
is_closed(cover) ==
    IF cover.state = "open" THEN 0
    ELSE IF cover.state = "closed" THEN 1 ELSE VALUE_NOT_SET

\* cover.py 84-97: the command of each operation and the state value it
\* records afterwards (False, True, None)
CoverOps == {"up", "down", "stop"}
StateAfter(op) == IF op = "up" THEN 0 ELSE IF op = "down" THEN 1 ELSE VALUE_NOT_SET

\* base_class.py 181: node["value"] = value, on the endpoint found
WithValue(node, i, value) ==
    LET ep == node.show_endpoints[i]
    IN [node EXCEPT !.show_endpoints[i] =
           [f \in DOMAIN ep \cup {"value"} |-> IF f = "value" THEN value ELSE ep[f]]]

\* base_class.py 167-183 with cover.py 99-101: async_set_value assigns the
\* value inside the object self._node refers to, then async_update_node
\* reads it back.  When that object is the one the cache holds, the cache
\* shows the assignment.
async_set_value(ep_type, name, value) ==
    LET i == FirstMatch(adapter.node.show_endpoints, ep_type, name, 1)
        node == WithValue(adapter.node, i, value)
    IN IF i = 0
       THEN UNCHANGED <<adapter, home_devices>>
       ELSE /\ adapter' = [adapter EXCEPT
                              !.node = node,
                              !.state = convert_state(get_value(node, ep_type, name))]
            /\ home_devices' =
                   IF adapter.shared
                   THEN Put(home_devices, adapter.node.id, node)
                   ELSE home_devices

\* what the cover entity never touches, the home-device cache apart
coverFrame ==
    <<phase, api, use_home, timer, inflight, devices, attrs, sensors_temperature,
      sensors_connection, call_list, disks, warning_once, node_warnings,
      denied_once, last, resolved, watchers, platforms, flow>>

\* cover.py 84-97: async_open_cover / async_close_cover / async_stop_cover
\* up to the await of the remote set call
CoverCall(op) ==
    /\ adapter.exists
    /\ entity.pc = "idle"
    /\ IF IsNotSet(adapter.commands[op])
       THEN /\ returned' = Ret(op, "returned", VALUE_NOT_SET, FALSE,
                                "Unable to SET a value through the API")
            /\ async_set_value("signal", "state", StateAfter(op))
            /\ UNCHANGED <<entity, home_calls>>
       ELSE /\ home_calls.gets + home_calls.sets < MaxCalls
            /\ home_calls' = Called("set", adapter.commands[op], VALUE_NOT_SET)
            /\ entity' = [entity EXCEPT !.pc = op, !.command_id = adapter.commands[op]]
            /\ returned' = Pending(op)
            /\ UNCHANGED <<adapter, home_devices>>
    /\ UNCHANGED coverFrame

\* cover.py 86-87, 91-92, 96-97: the remote call returned; async_set_value
CoverReply ==
    /\ entity.pc \in CoverOps
    /\ entity' = [entity EXCEPT !.pc = "idle"]
    /\ returned' = Ret(entity.pc, "returned", VALUE_NOT_SET, TRUE, "")
    /\ async_set_value("signal", "state", StateAfter(entity.pc))
    /\ UNCHANGED <<coverFrame, home_calls>>

\* the remote call raised: the operation ends before async_set_value
CoverError ==
    /\ entity.pc \in CoverOps
    /\ entity' = [entity EXCEPT !.pc = "idle"]
    /\ returned' = Ret(entity.pc, "raised", VALUE_NOT_SET, FALSE, "")
    /\ UNCHANGED <<coverFrame, home_calls, adapter, home_devices>>

\* a faulty entity: the update signal makes it write its state again,
\* from the node it holds
async_update_signal_stale ==
    /\ adapter.exists
    /\ adapter.signalled
    /\ adapter' = [adapter EXCEPT !.signalled = FALSE]
    /\ UNCHANGED <<coverFrame, home_devices, entity, returned, home_calls>>

\* base_class.py 82-92: async_update_signal takes the node of the cache
\* and the name from its label
async_update_signal ==
    /\ adapter.exists
    /\ adapter.signalled
    /\ adapter' = [adapter EXCEPT !.node = home_devices[adapter.node.id],
                                  !.name = Name(home_devices[adapter.node.id],
                                                adapter.sub_node),
                                  !.shared = TRUE,
                                  !.signalled = FALSE]
    /\ UNCHANGED <<coverFrame, home_devices, entity, returned, home_calls>>

(* --------------------------- battery sensor --------------------------- *)
\* a home node with a battery, as the gateway reports it
BatteryNode(label, value) ==
    [id |-> 1, category |-> "pir", label |-> label,
     show_endpoints |->
        <<[id |-> 0, ep_type |-> "signal", name |-> "battery", label |-> "Battery",
           value |-> value]>>]
BatteryLists ==
    {<<BatteryNode(label, value)>> :
        label \in NodeLabels, value \in Values \cup {VALUE_NOT_SET}}

\* sensor.py 235-237, base_class.py 19-35: FreeboxBatterySensor.__init__
FreeboxBatterySensor(node, sub_node) ==
    [exists |-> TRUE, shared |-> TRUE, signalled |-> FALSE, node |-> node,
     sub_node |-> sub_node, name |-> Name(node, sub_node)]

\* sensor.py 244-247: state
battery_state(sensor) == get_value(sensor.node, "signal", "battery")

(* --------------------------- shutter entity --------------------------- *)
\* cover.py 208-209: the state of a shutter is a base64 string; it is
\* kept here as the bytes it decodes to, or as None.  hex() writes two
\* digits per byte.
HexDigits ==
    <<"0", "1", "2", "3", "4", "5", "6", "7", "8", "9", "a", "b", "c", "d", "e", "f">>
\* a faulty hex(): upper-case digits
HexUpper(bytes) ==
    [i \in 1..(2 * Len(bytes)) |->
        LET byte == bytes[(i + 1) \div 2]
            upper == <<"0", "1", "2", "3", "4", "5", "6", "7", "8", "9",
                       "A", "B", "C", "D", "E", "F">>
        IN upper[(IF i % 2 = 1 THEN byte \div 16 ELSE byte % 16) + 1]]
Hex(bytes) ==
    [i \in 1..(2 * Len(bytes)) |->
        LET byte == bytes[(i + 1) \div 2]
        IN HexDigits[(IF i % 2 = 1 THEN byte \div 16 ELSE byte % 16) + 1]]

\* a state of n bytes whose byte 50 (hex digits 100 and 101, counted from
\* 0) is b
Blob(n, b) == [is_none |-> FALSE, bytes |-> [i \in 1..n |-> IF i = 51 THEN b ELSE 0]]
NoBlob == [is_none |-> TRUE, bytes |-> <<>>]
StateBlobs ==
    {NoBlob, Blob(StateHexLen \div 2 - 1, 0)}
        \cup {Blob(StateHexLen \div 2, b) : b \in {0, 200, 100}}
PositionSets == {VALUE_NOT_SET, 0, 30, 100}

\* a shutter or an opener as the gateway reports it
PositionNode(category, icon, state, position_set) ==
    [id |-> 1, category |-> category, label |-> "a", type |-> [icon |-> icon],
     show_endpoints |->
        <<[id |-> 0, ep_type |-> "slot", name |-> "position_set"],
          [id |-> 1, ep_type |-> "slot", name |-> "stop"],
          [id |-> 2, ep_type |-> "signal", name |-> "state", value |-> state],
          [id |-> 3, ep_type |-> "signal", name |-> "position_set",
           value |-> position_set]>>]
PositionNodes ==
    {PositionNode(category, icon, state, position_set) :
        category \in {"shutter", "opener"}, icon \in {"Porte_Garage", "Store"},
        state \in StateBlobs, position_set \in PositionSets}

\* cover.py 136-143: the position is inverted but for a garage door
invert_position(node) ==
    ~(node.category = "opener" /\ node.type.icon = "Porte_Garage")

\* cover.py 212-214, 230-232
Inverted(invert, position_set) ==
    IF invert THEN 100 - position_set ELSE position_set

\* what update_current_position does: it raises, or it assigns a position
Raised == [raised |-> TRUE, position |-> VALUE_NOT_SET, logged |-> ""]
Assigned(position, logged) == [raised |-> FALSE, position |-> position, logged |-> logged]

\* cover.py 202-234: update_current_position.  b64decode(None) raises
\* TypeError, and so do `100 - None` and `None > 0`.
update_current_position(state, position_set, invert) ==
    IF state.is_none
    THEN Raised
    ELSE LET hex_value == Hex(state.bytes)
             val_2 == SubSeq(hex_value, 101, 102)
         IN IF Len(hex_value) # StateHexLen
            THEN IF invert /\ position_set = VALUE_NOT_SET
                 THEN Raised
                 ELSE Assigned(Inverted(invert, position_set), "Invalid state")
            ELSE IF val_2 = <<"0", "0">>
                 THEN Assigned(100, "")
                 ELSE IF val_2 = <<"c", "8">>
                      THEN Assigned(0, "")
                      ELSE IF position_set = VALUE_NOT_SET
                           THEN Raised
                           ELSE IF position_set > 0 /\ position_set < 100
                                THEN Assigned(Inverted(invert, position_set), "")
                                ELSE Assigned(50, "")

\* the entity applies update_current_position to its node
Positioned(node, invert) ==
    update_current_position(get_value(node, "signal", "state"),
                            get_value(node, "signal", "position_set"), invert)

\* cover.py 116-146: FreeboxShutter.__init__, which ends with
\* update_current_position
FreeboxShutter(node) ==
    [exists |-> TRUE, shared |-> TRUE, signalled |-> FALSE, node |-> node,
     sub_node |-> NoSubNode, name |-> Name(node, NoSubNode),
     commands |->
        [set_position |-> get_command_id(node.show_endpoints, "slot", "position_set"),
         stop |-> get_command_id(node.show_endpoints, "slot", "stop")],
     invert_position |-> invert_position(node),
     requested |-> VALUE_NOT_SET,
     current_position |-> Positioned(node, invert_position(node)).position]

PositionReturned(op, r) ==
    Ret(op, IF r.raised THEN "raised" ELSE "returned", r.position, ~r.raised, r.logged)

\* cover.py 48-50, 116-146: add_entities builds the entity from the cached
\* node; an exception of the constructor leaves add_entities, and the
\* node is not tracked
AddShutter ==
    /\ ~adapter.exists
    /\ \E id \in DOMAIN home_devices :
          LET node == home_devices[id]
              r == Positioned(node, invert_position(node))
          IN /\ adapter' = IF r.raised THEN adapter ELSE FreeboxShutter(node)
             /\ returned' = PositionReturned("__init__", r)
    /\ UNCHANGED <<coverFrame, home_devices, entity, home_calls>>

\* cover.py 196-198: async_stop_cover up to the await of the remote call
ShutterStopCall ==
    /\ adapter.exists
    /\ entity.pc = "idle"
    /\ home_calls.gets + home_calls.sets < MaxCalls
    /\ home_calls' = Called("set", adapter.commands.stop, VALUE_NOT_SET)
    /\ entity' = [entity EXCEPT !.pc = "stop_cover", !.command_id = adapter.commands.stop]
    /\ returned' = Pending("stop_cover")
    /\ UNCHANGED <<coverFrame, home_devices, adapter>>

\* cover.py 198-200: the remote call returned; update_current_position
ShutterStopReply ==
    /\ entity.pc = "stop_cover"
    /\ entity' = [entity EXCEPT !.pc = "idle"]
    /\ LET r == Positioned(adapter.node, adapter.invert_position)
       IN /\ adapter' = IF r.raised
                        THEN adapter
                        ELSE [adapter EXCEPT !.current_position = r.position]
          /\ returned' = PositionReturned("stop_cover", r)
    /\ UNCHANGED <<coverFrame, home_devices, home_calls>>

\* the remote call raised: the operation ends before the update
ShutterStopError ==
    /\ entity.pc = "stop_cover"
    /\ entity' = [entity EXCEPT !.pc = "idle"]
    /\ returned' = Ret("stop_cover_call", "raised", VALUE_NOT_SET, FALSE, "")
    /\ UNCHANGED <<coverFrame, home_devices, home_calls, adapter>>

\* cover.py 171-194: the operations that move the shutter, and the
\* positions a caller may request (cover.py 162: 0 is closed, 100 is
\* fully open)
MoveOps == {"set_cover_position", "open_cover", "close_cover"}
FullyOpen == 100
Positions == 0..FullyOpen

\* a faulty async_set_cover_position: the requested position is sent as
\* it is
SentPositionPlain(op, invert, position) ==
    IF op = "open_cover" THEN (IF invert THEN 0 ELSE FullyOpen)
    ELSE IF op = "close_cover" THEN (IF invert THEN FullyOpen ELSE 0)
    ELSE position

\* cover.py 173-177, 184, 191: the value each operation sends
SentPosition(op, invert, position) ==
    IF op = "open_cover" THEN (IF invert THEN 0 ELSE FullyOpen)
    ELSE IF op = "close_cover" THEN (IF invert THEN FullyOpen ELSE 0)
    ELSE IF invert THEN FullyOpen - position ELSE position

\* cover.py 179, 186, 193: the position each operation assigns afterwards
PositionAfter(op, position) ==
    IF op = "open_cover" THEN FullyOpen
    ELSE IF op = "close_cover" THEN 0 ELSE position

\* cover.py 171-178, 182-185, 189-192: a moving operation up to the await
\* of the remote set call; `requested` is kwargs[ATTR_POSITION]
ShutterMoveCall(op, position) ==
    /\ adapter.exists
    /\ entity.pc = "idle"
    /\ home_calls.sets < MaxMoves
    /\ LET value == SentPosition(op, adapter.invert_position, position)
       IN /\ home_calls' = Called("set", adapter.commands.set_position, value)
          /\ entity' = [entity EXCEPT !.pc = op,
                                      !.command_id = adapter.commands.set_position,
                                      !.value = value]
    /\ adapter' = [adapter EXCEPT !.requested = PositionAfter(op, position)]
    /\ returned' = Pending(op)
    /\ UNCHANGED <<coverFrame, home_devices>>

\* cover.py 179-180, 186-187, 193-194: the remote call returned; the
\* entity presents the position that was asked for
ShutterMoveReply ==
    /\ entity.pc \in MoveOps
    /\ entity' = [entity EXCEPT !.pc = "idle"]
    /\ adapter' = [adapter EXCEPT !.current_position = adapter.requested,
                                  !.requested = VALUE_NOT_SET]
    /\ returned' = Ret(entity.pc, "returned", adapter.requested, TRUE, "")
    /\ UNCHANGED <<coverFrame, home_devices, home_calls>>

\* the remote call raised: the operation ends before the assignment
ShutterMoveError ==
    /\ entity.pc \in MoveOps
    /\ entity' = [entity EXCEPT !.pc = "idle"]
    /\ adapter' = [adapter EXCEPT !.requested = VALUE_NOT_SET]
    /\ returned' = Ret(entity.pc, "raised", VALUE_NOT_SET, FALSE, "")
    /\ UNCHANGED <<coverFrame, home_devices, home_calls>>

(* ------------------------- watching entities -------------------------- *)
\* binary_sensor.py 64-108: the entity classes that run a watcher, one
\* entity of each, and the home node each was built from
Watchers == {"pir", "dws"}
WatchedNode(w) == IF w = "pir" THEN 1 ELSE 2

\* binary_sensor.py 68-76: FreeboxPir.__init__ (FreeboxDws inherits it):
\* the trigger command, _detection = False, the timer of start_watcher,
\* _had_timeout = False; `pending` counts the ticks of the entity that are
\* suspended in the remote call; `timed_out` and `logged` tell how the
\* last read of the entity ended and the line it wrote to the log,
\* `written` whether the last tick that ended called async_write_ha_state
FreeboxPir(command_trigger) ==
    [armed |-> TRUE, pending |-> 0, command_trigger |-> command_trigger,
     detection |-> 0, had_timeout |-> FALSE, timed_out |-> FALSE, logged |-> "",
     written |-> FALSE]

\* binary_sensor.py 94-96: is_on
is_on(watcher) == watcher.detection

\* base_class.py 125-127, 134: the line a read of the entity logs
Logged(watcher, timed_out, line) ==
    [watcher EXCEPT !.timed_out = timed_out, !.logged = line]

\* binary_sensor.py 81-85: the body of the try once the value is there.
\* The value is a JSON boolean (0, 1) or VALUE_NOT_SET, _detection is a
\* boolean: they are equal only as booleans, and `not detection` is then
\* 1 - detection.
\* a faulty watcher: the state is written at every tick
WatchedWritesAlways(watcher, detection) ==
    [watcher EXCEPT !.had_timeout = FALSE,
                    !.detection = IF @ = detection THEN 1 - detection ELSE @,
                    !.written = TRUE]

Watched(watcher, detection) ==
    [watcher EXCEPT !.had_timeout = FALSE,
                    !.detection = IF @ = detection THEN 1 - detection ELSE @,
                    !.written = (watcher.detection = detection)]

\* a faulty entity class: _detection and _had_timeout are class attributes,
\* every entity shows what one of them read
WatcherReplyShared(w, node) ==
    /\ watchers[w].pending > 0
    /\ watchers' =
           [v \in Watchers |->
               IF v = w
               THEN [Logged(Watched(watchers[v], ValueOf(node)), FALSE, "")
                        EXCEPT !.pending = @ - 1]
               ELSE Watched(watchers[v], ValueOf(node))]
    /\ UNCHANGED <<routerVars, entityVars, adapter, platforms, flow>>

\* base_class.py 58-59, binary_sensor.py 78-80, base_class.py 122-132: a
\* tick of the entity's timer starts async_watcher, which calls
\* get_home_endpoint_value; nothing looks at the ticks still suspended
WatcherTick(w) ==
    /\ watchers[w].armed
    /\ IF IsNotSet(watchers[w].command_trigger)
       THEN watchers' =
                [watchers EXCEPT ![w] =
                    Logged(Watched(@, VALUE_NOT_SET), FALSE,
                           "Unable to GET a value through the API")]
       ELSE /\ watchers[w].pending < MaxTasks
            /\ watchers' = [watchers EXCEPT ![w].pending = @ + 1]
    /\ UNCHANGED <<routerVars, entityVars, adapter, platforms, flow>>

\* base_class.py 136, binary_sensor.py 81-85: the remote call returned
WatcherReply(w, node) ==
    /\ watchers[w].pending > 0
    /\ watchers' =
           [watchers EXCEPT ![w] =
               [Logged(Watched(@, ValueOf(node)), FALSE, "") EXCEPT !.pending = @ - 1]]
    /\ UNCHANGED <<routerVars, entityVars, adapter, platforms, flow>>

\* base_class.py 133-135: the remote call timed out; the accessor returns
\* VALUE_NOT_SET, so the handler of binary_sensor.py 86-91 is not reached
WatcherTimeout(w) ==
    /\ watchers[w].pending > 0
    /\ watchers' =
           [watchers EXCEPT ![w] =
               [Logged(Watched(@, GetTimedOut.value), TRUE, GetTimedOut.logged)
                   EXCEPT !.pending = @ - 1]]
    /\ UNCHANGED <<routerVars, entityVars, adapter, platforms, flow>>

\* any other exception of the remote call leaves async_watcher
WatcherError(w) ==
    /\ watchers[w].pending > 0
    /\ watchers' =
           [watchers EXCEPT ![w] =
               [Logged(@, FALSE, "") EXCEPT !.pending = @ - 1, !.written = FALSE]]
    /\ UNCHANGED <<routerVars, entityVars, adapter, platforms, flow>>

(* -------------------------- entity platforms -------------------------- *)
\* a home node as the platforms see it: its category, and a battery
\* endpoint that is missing, or present with a value or with None
PlatformNode(category, has_battery, value) ==
    [id |-> 1, category |-> category, label |-> "a",
     show_endpoints |->
        IF has_battery
        THEN <<[id |-> 0, ep_type |-> "signal", name |-> "battery",
                label |-> "Battery", value |-> value]>>
        ELSE <<>>]
PlatformNodes ==
    {PlatformNode(category, has_battery, value) :
        category \in {"pir", "camera", "basic_shutter", "alarm"},
        has_battery \in BOOLEAN, value \in {VALUE_NOT_SET, 1}}

\* `sensor_cover_node and sensor_cover_node.get("value") is not None`
\* (binary_sensor.py 49-56) and the same test of the battery endpoint
\* (sensor.py 101-108)
HasSignalValue(node, name) ==
    LET i == FirstMatch(node.show_endpoints, "signal", name, 1)
    IN i # 0 /\ ValueOf(node.show_endpoints[i]) # VALUE_NOT_SET

\* the entity classes a platform builds for a node: cover.py 45-50,
\* camera.py 50-54, alarm_control_panel.py 42-50, binary_sensor.py 44-57,
\* sensor.py 101-109
Builds(p, node) ==
    IF p = "cover"
    THEN IF node.category = "basic_shutter" THEN {"FreeboxBasicShutter"}
         ELSE IF node.category \in {"shutter", "opener"} THEN {"FreeboxShutter"}
         ELSE {}
    ELSE IF p = "camera"
    THEN IF node.category = "camera" THEN {"FreeboxCamera"} ELSE {}
    ELSE IF p = "alarm_control_panel"
    THEN IF node.category = "alarm" THEN {"FreeboxAlarm"} ELSE {}
    ELSE IF p = "binary_sensor"
    THEN (IF node.category = "pir" THEN {"FreeboxPir"}
          ELSE IF node.category = "dws" THEN {"FreeboxDws"} ELSE {})
         \cup (IF HasSignalValue(node, "cover") THEN {"FreeboxSensorCover"} ELSE {})
    ELSE IF HasSignalValue(node, "battery") THEN {"FreeboxBatterySensor"} ELSE {}

\* a faulty sensor platform: a node is tracked once it has an entity
TracksBuilt(p, node) == Builds(p, node) # {}

\* the nodes a platform adds to `tracked`: those it built an entity for
\* (cover.py 47, 50, camera.py 55, alarm_control_panel.py 50), or every
\* node it looked at (binary_sensor.py 59, sensor.py 111)
Tracks(p, node) ==
    IF p \in {"binary_sensor", "sensor"} THEN TRUE ELSE Builds(p, node) # {}

\* a faulty platform: `tracked` is not looked at
UntrackedAll(p) == DOMAIN home_devices

\* `if nodeId in tracked: continue` (cover.py 43, camera.py 52,
\* alarm_control_panel.py 45, binary_sensor.py 42, sensor.py 98)
Untracked(p) == DOMAIN home_devices \ platforms[p].tracked

\* the number of add_entities passes of the platform that built entities
\* for the node
Built(all, p, id) ==
    IF id \in DOMAIN all[p].built THEN all[p].built[id] ELSE 0

\* add_entities of a platform: a callback, it runs whole.  It is called
\* when the platform is set up and at each "new home device" signal.
add_entities(p) ==
    /\ phase = "ready"
    /\ LET fresh == Untracked(p)
           made == {id \in fresh : Builds(p, home_devices[id]) # {}}
           kept == {id \in fresh : Tracks(p, home_devices[id])}
       IN platforms' =
              [platforms EXCEPT ![p] =
                  [tracked |-> @.tracked \cup kept,
                   seen |-> @.seen \cup DOMAIN home_devices,
                   built |-> [id \in DOMAIN @.built \cup made |->
                                 Built(platforms, p, id)
                                     + (IF id \in made THEN 1 ELSE 0)]]]
    /\ UNCHANGED <<routerVars, entityVars, adapter, watchers, flow>>

(* ---------------------------- config flow ----------------------------- *)
\* config_flow.py 229-257: the exceptions check_freebox_permission tells
\* apart, and the errors["base"] each handler records
FlowErrors == {"AuthorizationError", "InsufficientPermissionsError",
               "HttpRequestError", "Exception"}
ErrorBase(error) ==
    IF error = "InsufficientPermissionsError" THEN "insufficient_permission"
    ELSE IF error = "HttpRequestError" THEN "cannot_connect"
    ELSE IF error = "AuthorizationError" THEN "register_failed" ELSE "unknown"

\* config_flow.py 210-214: one call of check_freebox_permission, suspended
\* in fbx.open of the client get_api gave it
FlowFrame(check_type, loop, fbx) ==
    [check_type |-> check_type, loop |-> loop, fbx |-> fbx, pc |-> "open",
     has_home_automation |-> FALSE, result |-> VALUE_NOT_SET]

\* the awaits inside the try statement (config_flow.py 214-226)
TryAwaits == {"open", "get_config", "get_hosts_list", "get_home_nodes"}

\* a faulty check: the client is closed at the end of the try block only
AfterTryOnSuccess(raised) == IF raised THEN "leave" ELSE "close"

\* config_flow.py 259-260: `finally: await fbx.close()`, whichever way the
\* try statement is left
AfterTry(raised) == "close"

\* a faulty check: it tries again after every authorization error
CanRetryAlways(frame) == TRUE

\* config_flow.py 231: `if loop is True`
CanRetry(frame) == frame.loop

Top == flow.stack[Len(flow.stack)]
WithTop(frame) == [flow.stack EXCEPT ![Len(flow.stack)] = frame]
flowFrame == <<routerVars, entityVars, adapter, watchers, platforms>>

\* config_flow.py 210-214: the config flow calls check_freebox_permission
\* (config_flow.py 91, 131, 189); get_api builds a client and open is
\* awaited
FlowStart(check_type) ==
    /\ flow.stack = <<>>
    /\ flow.status = VALUE_NOT_SET
    /\ flow' = [flow EXCEPT
                   !.clients = <<"opening">>,
                   !.stack = <<FlowFrame(check_type, TRUE, 1)>>]
    /\ UNCHANGED flowFrame

\* config_flow.py 214-227: an awaited call of the try block returned
FlowReturn(has_home_automation) ==
    /\ flow.stack # <<>>
    /\ Top.pc \in TryAwaits
    /\ flow' =
           IF Top.pc = "open"
           THEN [flow EXCEPT
                    !.clients[Top.fbx] = "open",
                    !.stack = WithTop([Top EXCEPT !.pc =
                        IF Top.check_type = PERMISSION_DEFAULT
                        THEN "get_config" ELSE "get_home_nodes"])]
           ELSE IF Top.pc = "get_config"
           THEN [flow EXCEPT !.stack = WithTop(
                    [Top EXCEPT !.pc = "get_hosts_list",
                                !.has_home_automation = has_home_automation])]
           ELSE [flow EXCEPT !.stack = WithTop(
                    [Top EXCEPT !.pc = AfterTry(FALSE),
                                !.result = IF Top.pc = "get_hosts_list"
                                              /\ Top.has_home_automation
                                           THEN STATUS_HAS_HOME ELSE STATUS_OK])]
    /\ UNCHANGED flowFrame

\* config_flow.py 229-257: an awaited call of the try block raised.  An
\* authorization error leads to reset_api; the other handlers record
\* their error and fall through to the return of line 262.
FlowRaise(error) ==
    /\ flow.stack # <<>>
    /\ Top.pc \in TryAwaits
    /\ LET clients == IF Top.pc = "open"
                      THEN [flow.clients EXCEPT ![Top.fbx] = "failed"]
                      ELSE flow.clients
       IN flow' =
              IF error = "AuthorizationError"
              THEN [flow EXCEPT !.clients = clients,
                                !.stack = WithTop([Top EXCEPT !.pc = "reset_api"])]
              ELSE [flow EXCEPT
                       !.clients = clients,
                       !.errors = ErrorBase(error),
                       !.stack = WithTop([Top EXCEPT
                                             !.pc = AfterTry(TRUE),
                                             !.result = STATUS_PERMISSION_ERROR])]
    /\ UNCHANGED flowFrame

\* config_flow.py 230-238, router.py 70-75: reset_api has unlinked the
\* token file; the first call calls itself with loop=False, whose get_api
\* builds another client; the second records register_failed
FlowReset ==
    /\ flow.stack # <<>>
    /\ Top.pc = "reset_api"
    /\ flow' =
           IF CanRetry(Top)
           THEN [flow EXCEPT
                    !.token = FALSE,
                    !.resets = @ + 1,
                    !.clients = Append(@, "opening"),
                    !.stack = Append(WithTop([Top EXCEPT !.pc = "retry"]),
                                     FlowFrame(Top.check_type, FALSE,
                                               Len(flow.clients) + 1))]
           ELSE [flow EXCEPT
                    !.token = FALSE,
                    !.resets = @ + 1,
                    !.errors = ErrorBase("AuthorizationError"),
                    !.stack = WithTop([Top EXCEPT
                                          !.pc = AfterTry(TRUE),
                                          !.result = STATUS_PERMISSION_ERROR])]
    /\ UNCHANGED flowFrame

\* config_flow.py 259-262, 232-234: fbx.close() has returned and the call
\* returns its result, to the config flow or to the call that awaits it
\* in its handler, which returns the same result through its own finally
FlowClose ==
    /\ flow.stack # <<>>
    /\ Top.pc \in {"close", "leave"}
    /\ LET clients == IF Top.pc = "close"
                      THEN [flow.clients EXCEPT ![Top.fbx] = "closed"]
                      ELSE flow.clients
           callers == SubSeq(flow.stack, 1, Len(flow.stack) - 1)
       IN flow' =
              IF callers = <<>>
              THEN [flow EXCEPT !.clients = clients, !.stack = <<>>,
                                !.status = Top.result]
              ELSE [flow EXCEPT
                       !.clients = clients,
                       !.stack = [callers EXCEPT ![Len(callers)] =
                                     [@ EXCEPT !.pc = AfterTry(TRUE),
                                               !.result = Top.result]]]
    /\ UNCHANGED flowFrame

(* --------------------------- specification ---------------------------- *)
Setup == SetupStart \/ SetupOpened \/ SetupNotReady \/ SetupFirstPoll

Close == CloseBegin \/ CloseEnd \/ CloseAgain

\* the steps of the poll cycles, for the replies the gateway may give
Cycle(Hosts, Systs, Conns, Calls, Disks, Homes) ==
    \/ \E hosts \in Hosts : HostsReturn(hosts)
    \/ \E syst_datas \in Systs : ConfigReturn(syst_datas)
    \/ \E syst_datas \in Systs, connection_datas \in Conns :
           StatusReturn(syst_datas, connection_datas)
    \/ \E calls \in Calls : CallsReturn(calls)
    \/ \E reply \in Disks : DisksReturn(reply)
    \/ \E home_nodes \in Homes : HomeReturn(home_nodes)
    \/ HomeDenied
    \/ \E s \in TaskStates : RemoteError(s)

\* one reply of each kind
OneSyst == {[sensors |-> <<[name |-> "cpu", value |-> 1]>>, serial |-> "s"]}
OneConn == {[rate_down |-> 1, rate_up |-> 1, media |-> "ftth"]}
OneDisks == {NoDisks}
OneHosts == {<<>>}
OneHome == {<<[id |-> 1, category |-> "pir", label |-> "a"]>>}

\* the router with every kind of host list
NextDevices ==
    Setup \/ TimerTick \/ Close
        \/ Cycle(HostLists, OneSyst, OneConn, {<<>>}, OneDisks, OneHome)

\* the router with every kind of sensor reply
NextSensors ==
    Setup \/ TimerTick \/ Close
        \/ Cycle(OneHosts, SystReplies, ConnReplies, CallLogs, DiskReplies, OneHome)

\* the router with every kind of home node list
NextHome ==
    Setup \/ TimerTick \/ Close
        \/ Cycle(OneHosts, OneSyst, OneConn, {<<>>}, OneDisks, HomeNodeLists)

\* the router with hosts and home nodes that come and go between polls
SomeHosts == {<<>>, <<[l2ident |-> 1, active |-> TRUE]>>}
SomeHomes == {<<>>} \cup OneHome
NextCaches ==
    Setup \/ TimerTick \/ Close
        \/ Cycle(SomeHosts, OneSyst, OneConn, {<<>>}, OneDisks, SomeHomes)

Next == NextDevices

Spec == Init /\ [][Next]_vars
SpecSensors == Init /\ [][NextSensors]_vars
SpecHome == Init /\ [][NextHome]_vars

SpecCaches == Init /\ [][NextCaches]_vars

\* the router with home node lists of several nodes, supported or not
ManyNodeIds == {1, 2}
ManyNodeLists ==
    {l \in SeqUpTo([id : ManyNodeIds, category : NodeCategories, label : {"a"}],
                   Cardinality(ManyNodeIds)) :
        \A i, j \in DOMAIN l : i < j => l[i].id < l[j].id}
NextNodes ==
    Setup \/ TimerTick \/ Close
        \/ Cycle(OneHosts, OneSyst, OneConn, {<<>>}, OneDisks, ManyNodeLists)
SpecNodes == Init /\ [][NextNodes]_vars

\* the endpoint directory applied to every endpoint list
InitDirectory == Init
NextDirectory ==
    \E nodes \in EndpointLists, ep_type \in EpTypes, name \in EpNames :
        Resolve(nodes, ep_type, name)
SpecDirectory == InitDirectory /\ [][NextDirectory]_vars

\* an entity of a router that has polled: the caches hold the self-record
\* and the home nodes
InitAccessor ==
    /\ EntityInit(NodeIds)
    /\ phase = "ready"
    /\ api = "open"
    /\ use_home = TRUE
    /\ timer = TRUE
    /\ inflight = EmptyBag
    /\ devices = [m \in {SelfMac} |->
                    [l2ident |-> SelfMac, host_type |-> "router", active |-> TRUE,
                     attrs |-> NoAttrs]]
    /\ \E syst_datas \in OneSyst, connection_datas \in OneConn :
        /\ attrs = Attrs(connection_datas, syst_datas)
        /\ sensors_temperature = TemperatureLoop(EmptyMap, syst_datas.sensors, 1)
        /\ sensors_connection = ConnectionSensors(connection_datas)
    /\ call_list = <<>>
    /\ disks = EmptyMap
    /\ \E label \in NodeLabels :
        home_devices = [id \in NodeIds |-> [id |-> id, category |-> "pir", label |-> label]]
    /\ warning_once = TRUE
    /\ node_warnings = 0
    /\ denied_once = FALSE
    /\ last = Event("update_home_devices", HomeSignals(TRUE), "returned")

NextAccessor ==
    \/ \E command_id \in CommandIds \cup {VALUE_NOT_SET} : GetCall(command_id)
    \/ \E node \in EndpointReplies : GetReply(node)
    \/ GetTimeout
    \/ \E command_id \in CommandIds \cup {VALUE_NOT_SET}, value \in SetValues :
           SetCall(command_id, value)
    \/ SetReply
    \/ AccessorError
SpecAccessor == InitAccessor /\ [][NextAccessor]_vars

\* a cover entity of a router that has polled a basic shutter
InitCover ==
    /\ resolved = NotResolved
    /\ platforms = NoPlatforms
    /\ flow = NoFlow
    /\ entity = IdleEntity(1)
    /\ returned = NoCall
    /\ home_calls = NoHomeCalls
    /\ watchers = NoWatchers
    /\ phase = "ready"
    /\ api = "open"
    /\ use_home = TRUE
    /\ timer = TRUE
    /\ inflight = EmptyBag
    /\ devices = [m \in {SelfMac} |->
                    [l2ident |-> SelfMac, host_type |-> "router", active |-> TRUE,
                     attrs |-> NoAttrs]]
    /\ \E syst_datas \in OneSyst, connection_datas \in OneConn :
        /\ attrs = Attrs(connection_datas, syst_datas)
        /\ sensors_temperature = TemperatureLoop(EmptyMap, syst_datas.sensors, 1)
        /\ sensors_connection = ConnectionSensors(connection_datas)
    /\ call_list = <<>>
    /\ disks = EmptyMap
    /\ \E home_nodes \in ShutterLists :
        /\ home_devices = HomeLoop(EmptyMap, FALSE, 0, home_nodes, 1).cache
        /\ adapter = FreeboxBasicShutter(home_nodes[1])
    /\ warning_once = TRUE
    /\ node_warnings = 0
    /\ denied_once = FALSE
    /\ last = Event("update_home_devices", HomeSignals(TRUE), "returned")

Cover ==
    \/ \E op \in CoverOps : CoverCall(op)
    \/ CoverReply
    \/ CoverError
    \/ async_update_signal

NextCover ==
    Cover \/ TimerTick
        \/ Cycle(OneHosts, OneSyst, OneConn, {<<>>}, OneDisks, ShutterLists)
SpecCover == InitCover /\ [][NextCover]_vars

\* a router that has polled a shutter or an opener, of any state and
\* position_set, from which the cover platform builds its entity
InitPolled(nodes) ==
    /\ resolved = NotResolved
    /\ platforms = NoPlatforms
    /\ flow = NoFlow
    /\ entity = IdleEntity(1)
    /\ returned = NoCall
    /\ home_calls = NoHomeCalls
    /\ watchers = NoWatchers
    /\ adapter = NoAdapter
    /\ phase = "ready"
    /\ api = "open"
    /\ use_home = TRUE
    /\ timer = TRUE
    /\ inflight = EmptyBag
    /\ devices = [m \in {SelfMac} |->
                    [l2ident |-> SelfMac, host_type |-> "router", active |-> TRUE,
                     attrs |-> NoAttrs]]
    /\ \E syst_datas \in OneSyst, connection_datas \in OneConn :
        /\ attrs = Attrs(connection_datas, syst_datas)
        /\ sensors_temperature = TemperatureLoop(EmptyMap, syst_datas.sensors, 1)
        /\ sensors_connection = ConnectionSensors(connection_datas)
    /\ call_list = <<>>
    /\ disks = EmptyMap
    /\ \E node \in nodes :
        home_devices = HomeLoop(EmptyMap, FALSE, 0, <<node>>, 1).cache
    /\ warning_once = TRUE
    /\ node_warnings = 0
    /\ denied_once = FALSE
    /\ last = Event("update_home_devices", HomeSignals(TRUE), "returned")

InitShutter == InitPolled(PositionNodes)
NextShutter == AddShutter \/ ShutterStopCall \/ ShutterStopReply \/ ShutterStopError
SpecShutter == InitShutter /\ [][NextShutter]_vars

\* a router that has polled a roller shutter (inverted position) or a
\* garage door (position as it is), whose state does not decode to 118
\* digits; the entity is built and then moved
MovedNodes ==
    {PositionNode("shutter", "Store", Blob(StateHexLen \div 2 - 1, 0), FullyOpen),
     PositionNode("opener", "Porte_Garage", Blob(StateHexLen \div 2 - 1, 0), FullyOpen)}
InitPosition == InitPolled(MovedNodes)
NextPosition ==
    \/ AddShutter
    \/ \E position \in Positions : ShutterMoveCall("set_cover_position", position)
    \/ ShutterMoveCall("open_cover", FullyOpen)
    \/ ShutterMoveCall("close_cover", 0)
    \/ ShutterMoveReply
    \/ ShutterMoveError
SpecPosition == InitPosition /\ [][NextPosition]_vars

\* a router that has polled a node with a battery, for which the sensor
\* platform has built a battery sensor (sensor.py 97-109)
InitBattery ==
    /\ resolved = NotResolved
    /\ platforms = NoPlatforms
    /\ flow = NoFlow
    /\ entity = IdleEntity(1)
    /\ returned = NoCall
    /\ home_calls = NoHomeCalls
    /\ watchers = NoWatchers
    /\ phase = "ready"
    /\ api = "open"
    /\ use_home = TRUE
    /\ timer = TRUE
    /\ inflight = EmptyBag
    /\ devices = [m \in {SelfMac} |->
                    [l2ident |-> SelfMac, host_type |-> "router", active |-> TRUE,
                     attrs |-> NoAttrs]]
    /\ \E syst_datas \in OneSyst, connection_datas \in OneConn :
        /\ attrs = Attrs(connection_datas, syst_datas)
        /\ sensors_temperature = TemperatureLoop(EmptyMap, syst_datas.sensors, 1)
        /\ sensors_connection = ConnectionSensors(connection_datas)
    /\ call_list = <<>>
    /\ disks = EmptyMap
    /\ LET node == BatteryNode("a", 0)
       IN /\ home_devices = HomeLoop(EmptyMap, FALSE, 0, <<node>>, 1).cache
          /\ adapter = FreeboxBatterySensor(node, node.show_endpoints[1])
    /\ warning_once = TRUE
    /\ node_warnings = 0
    /\ denied_once = FALSE
    /\ last = Event("update_home_devices", HomeSignals(TRUE), "returned")

NextBattery ==
    async_update_signal \/ TimerTick
        \/ Cycle(OneHosts, OneSyst, OneConn, {<<>>}, OneDisks, BatteryLists)
SpecBattery == InitBattery /\ [][NextBattery]_vars

\* the watching entities of a router that has polled their nodes
InitWatchers ==
    /\ resolved = NotResolved
    /\ platforms = NoPlatforms
    /\ flow = NoFlow
    /\ entity = IdleEntity(1)
    /\ returned = NoCall
    /\ home_calls = NoHomeCalls
    /\ adapter = NoAdapter
    /\ watchers \in [Watchers -> {FreeboxPir(command_trigger) :
                                    command_trigger \in {0, VALUE_NOT_SET}}]
    /\ phase = "ready"
    /\ api = "open"
    /\ use_home = TRUE
    /\ timer = TRUE
    /\ inflight = EmptyBag
    /\ devices = [m \in {SelfMac} |->
                    [l2ident |-> SelfMac, host_type |-> "router", active |-> TRUE,
                     attrs |-> NoAttrs]]
    /\ \E syst_datas \in OneSyst, connection_datas \in OneConn :
        /\ attrs = Attrs(connection_datas, syst_datas)
        /\ sensors_temperature = TemperatureLoop(EmptyMap, syst_datas.sensors, 1)
        /\ sensors_connection = ConnectionSensors(connection_datas)
    /\ call_list = <<>>
    /\ disks = EmptyMap
    /\ home_devices =
           [id \in {WatchedNode(w) : w \in Watchers} |->
               [id |-> id, category |-> IF id = WatchedNode("pir") THEN "pir" ELSE "dws",
                label |-> "a"]]
    /\ warning_once = TRUE
    /\ node_warnings = 0
    /\ denied_once = FALSE
    /\ last = Event("update_home_devices", HomeSignals(TRUE), "returned")

Watch ==
    \E w \in Watchers :
        \/ WatcherTick(w)
        \/ \E node \in EndpointReplies : WatcherReply(w, node)
        \/ WatcherTimeout(w)
        \/ WatcherError(w)

\* the watchers run beside the poller, of which at most two cycles
\* overlap here
NextWatchers ==
    Watch \/ (TimerTick /\ InFlightCycles < 2)
        \/ Cycle(OneHosts, OneSyst, OneConn, {<<>>}, OneDisks, OneHome)
SpecWatchers == InitWatchers /\ [][NextWatchers]_vars

\* the platforms of a router that has polled one node and goes on
\* polling, one cycle at a time; each poll replaces the record of the node
InitPlatforms == InitPolled(PlatformNodes)
NextPlatforms ==
    \/ \E p \in PlatformNames : add_entities(p)
    \/ (TimerTick /\ InFlightCycles = 0)
    \/ Cycle(OneHosts, OneSyst, OneConn, {<<>>}, OneDisks,
             {<<node>> : node \in PlatformNodes})
SpecPlatforms == InitPlatforms /\ [][NextPlatforms]_vars

\* the config flow checks the permissions before any router is set up
NextFlow ==
    \/ \E check_type \in {PERMISSION_DEFAULT, PERMISSION_HOME} : FlowStart(check_type)
    \/ \E has_home_automation \in BOOLEAN : FlowReturn(has_home_automation)
    \/ \E error \in FlowErrors : FlowRaise(error)
    \/ FlowReset
    \/ FlowClose
SpecFlow == Init /\ [][NextFlow]_vars

\* the timer of async_track_time_interval keeps firing while registered
SpecLive == Spec /\ WF_vars(TimerTick)

(* ------------------------------- claims ------------------------------- *)
Count(seq, x) == Cardinality({i \in DOMAIN seq : seq[i] = x})

\* C1: at most one poll cycle (update_all) is in flight at any time: a
\* timer tick that fires while a cycle is suspended on a remote call
\* starts no second cycle.
C1_AtMostOneCycleInFlight == InFlightCycles <= 1

\* C2: every completed device-list step dispatches "device list updated"
\* exactly once, and "new device present" exactly once if some id of the
\* fetched list (the self-record included) was not in the device cache
\* before the step, and not at all otherwise; it dispatches nothing else.
C2_DeviceStepNotifications ==
    [][\A hosts \in HostLists :
          HostsReturn(hosts) =>
              LET fetched == {hosts[i].l2ident : i \in DOMAIN hosts} \cup {SelfMac}
                  absent == fetched \ DOMAIN devices
              IN /\ Count(last'.sent, signal_device_update) = 1
                 /\ Count(last'.sent, signal_device_new) =
                        (IF absent # {} THEN 1 ELSE 0)
                 /\ Len(last'.sent) = (IF absent # {} THEN 2 ELSE 1)]_vars

\* a cycle started by the timer found a host that was not cached
C2_Witness ==
    /\ phase = "ready"
    /\ last.op = "update_device_trackers"
    /\ last.sent = <<signal_device_update, signal_device_new>>
    /\ DOMAIN devices = HostIds \cup {SelfMac}

\* C3: get_command_id returns VALUE_NOT_SET if and only if no element of
\* the endpoint list matches both kind and name; otherwise it returns the
\* identifier of the first matching element in list order; it always
\* returns a value.
C3_ResolveFirstMatch ==
    LET L == resolved.nodes
        M == {i \in DOMAIN L :
                 L[i].ep_type = resolved.ep_type /\ L[i].name = resolved.name}
    IN /\ resolved.id \in CommandIds \cup {VALUE_NOT_SET}
       /\ (resolved.id = VALUE_NOT_SET) <=> (M = {})
       /\ M # {} =>
            \E i \in M : (\A j \in M : i <= j) /\ resolved.id = L[i].id

\* a lookup where a non-matching element of the same name comes first and
\* two elements with different identifiers match
C3_Witness ==
    /\ Len(resolved.nodes) = MaxEndpoints
    /\ resolved.nodes[1].name = resolved.name
    /\ resolved.nodes[1].ep_type # resolved.ep_type
    /\ resolved.nodes[2].ep_type = resolved.ep_type
    /\ resolved.nodes[2].name = resolved.name
    /\ resolved.nodes[1].id # resolved.nodes[2].id
    /\ resolved.id = resolved.nodes[2].id

\* C4: for every node id, get_home_endpoint_value called with
\* command_id = VALUE_NOT_SET returns VALUE_NOT_SET and makes no call to
\* the remote API client: the client's call counts are unchanged.
C4_GetUnsetMakesNoCall ==
    [][GetCall(VALUE_NOT_SET) =>
          /\ returned'.op = "get"
          /\ returned'.how = "returned"
          /\ returned'.value = VALUE_NOT_SET
          /\ home_calls' = home_calls
          /\ entity'.pc = "idle"]_vars

\* get returned VALUE_NOT_SET for an unset command; the client saw no call
C4_Witness ==
    /\ returned.op = "get"
    /\ returned.how = "returned"
    /\ returned.value = VALUE_NOT_SET
    /\ returned.logged = "Unable to GET a value through the API"
    /\ home_calls = NoHomeCalls

\* C5: when the remote get call times out, get_home_endpoint_value
\* returns VALUE_NOT_SET and does not raise; when the call succeeds it
\* returns the value field of the response, or VALUE_NOT_SET if the
\* response carries no value.
C5_GetTimeoutAndValue ==
    [][/\ GetTimeout =>
            /\ returned'.op = "get"
            /\ returned'.how = "returned"
            /\ returned'.value = VALUE_NOT_SET
       /\ \A node \in EndpointReplies :
            GetReply(node) =>
                /\ returned'.op = "get"
                /\ returned'.how = "returned"
                /\ returned'.value =
                       (IF \E v \in Values \cup {VALUE_NOT_SET} : node = [value |-> v]
                        THEN node.value
                        ELSE VALUE_NOT_SET)]_vars

\* a get whose remote call timed out has returned VALUE_NOT_SET
C5_Witness ==
    /\ returned.op = "get"
    /\ returned.how = "returned"
    /\ returned.value = VALUE_NOT_SET
    /\ returned.logged = "The Freebox API Timeout during a value retrieval"
    /\ home_calls.gets > 0
    /\ entity.pc = "idle"

\* C6: set_home_endpoint_value with command_id = VALUE_NOT_SET returns
\* false and makes no remote call; with any other command_id it makes
\* exactly one remote set call, for (node id, command id, value), and
\* returns true when that call returns.
C6_SetUnsetOrOneCall ==
    [][/\ \A value \in SetValues :
            SetCall(VALUE_NOT_SET, value) =>
                /\ returned'.op = "set"
                /\ returned'.how = "returned"
                /\ returned'.success = FALSE
                /\ home_calls' = home_calls
                /\ entity'.pc = "idle"
       /\ \A command_id \in CommandIds, value \in SetValues :
            SetCall(command_id, value) =>
                /\ home_calls'.sets = home_calls.sets + 1
                /\ home_calls'.gets = home_calls.gets
                /\ home_calls'.last =
                       [method |-> "set", node_id |-> entity.id,
                        command_id |-> command_id, value |-> value]
                /\ entity'.pc = "set"
       /\ SetReply =>
            /\ returned'.op = "set"
            /\ returned'.how = "returned"
            /\ returned'.success = TRUE
            /\ home_calls' = home_calls]_vars

\* a set for command 0 returned true after one remote call that carried
\* the entity's node id, the command and the value
C6_Witness ==
    /\ returned.op = "set"
    /\ returned.how = "returned"
    /\ returned.success
    /\ home_calls.sets = 1
    /\ home_calls.last =
           [method |-> "set", node_id |-> entity.id, command_id |-> 0,
            value |-> MaxValue]

\* C7: set_home_endpoint_value leaves router.home_devices and
\* router.devices unchanged, whatever its outcome (refused, returned,
\* raised).
C7_SetLeavesCaches ==
    [][((\E command_id \in CommandIds \cup {VALUE_NOT_SET}, value \in SetValues :
             SetCall(command_id, value))
        \/ SetReply
        \/ (AccessorError /\ entity.pc = "set"))
       => /\ home_devices' = home_devices
          /\ devices' = devices]_vars

\* a set call has gone to the gateway while the caches hold records
C7_Witness ==
    /\ returned.op = "set"
    /\ returned.how = "returned"
    /\ returned.success
    /\ entity.id \in DOMAIN home_devices
    /\ SelfMac \in DOMAIN devices

AtHome == Suspended("get_home_nodes", NoData)

\* C8: when get_home_nodes raises permission-denied, update_home_devices
\* returns without raising, leaves the home-device cache (and every other
\* cache) unchanged and dispatches nothing; the cycle it ends ran steps 1
\* and 2 before it, the timer stays registered, and the device-list and
\* sensor steps of the cycles that follow run as usual.
C8_PermissionDeniedIsSoft ==
    [][/\ HomeDenied =>
            /\ UNCHANGED caches
            /\ last'.sent = <<>>
            /\ last'.ended = "returned"
            /\ phase' # "setup_error"
            /\ timer' = (timer \/ phase = "first_poll")
       /\ CopiesIn(AtHome, inflight') > CopiesIn(AtHome, inflight) =>
            /\ last'.op = "update_sensors"
            /\ last'.sent = <<signal_sensor_update>>
       /\ denied_once =>
            /\ \A hosts \in HostLists :
                 HostsReturn(hosts) =>
                    /\ \A i \in DOMAIN hosts : devices'[hosts[i].l2ident] = hosts[i]
                    /\ Count(last'.sent, signal_device_update) = 1
                    /\ last'.ended = (IF api = "None" THEN "raised" ELSE "no")
            /\ \A reply \in DiskReplies :
                 DisksReturn(reply) => last'.sent = <<signal_sensor_update>>]_vars

\* the first cycle was denied home access (nothing warned-once, setup done)
\* and a later cycle has finished its sensor step
C8_Witness ==
    /\ use_home
    /\ denied_once
    /\ ~warning_once
    /\ home_devices = EmptyMap
    /\ phase = "ready"
    /\ timer
    /\ last.op = "update_sensors"
    /\ last.sent = <<signal_sensor_update>>

\* C9: a permission-denied response does not disable later attempts: home
\* access stays enabled, every cycle that finishes its sensor step after a
\* denial calls get_home_nodes again, and a later successful response puts
\* every supported node of the result in the home-device cache.
C9_DeniedDoesNotDisable ==
    [][/\ use_home' = use_home
       /\ (denied_once /\ use_home /\ api = "open") =>
            \A reply \in DiskReplies :
                DisksReturn(reply) =>
                    CopiesIn(AtHome, inflight') = CopiesIn(AtHome, inflight) + 1
       /\ denied_once =>
            \A home_nodes \in HomeNodeLists :
                HomeReturn(home_nodes) =>
                    \A i \in DOMAIN home_nodes :
                        home_nodes[i].category \in SupportedCategories =>
                            /\ home_nodes[i].id \in DOMAIN home_devices'
                            /\ home_devices'[home_nodes[i].id] = home_nodes[i]]_vars

\* after a denial (the home cache was still empty: nothing had been
\* warned-once) a successful home step has populated the cache
C9_Witness ==
    /\ denied_once
    /\ last.op = "update_home_devices"
    /\ last.sent = <<signal_home_device_update, signal_home_device_new>>
    /\ home_devices # EmptyMap

CycleEnded ==
    /\ last.ended \in {"returned", "raised"}
    /\ last.op \in {"update_all", "update_sensors", "update_home_devices"}

CycleStarted == last = Event("update_all", <<>>, "no")

\* C10: after setup has succeeded the poller stays armed after every
\* cycle whatever its outcome (returned, permission denied, raised in any
\* step): only teardown cancels the timer, and with the timer ticking a
\* new cycle starts after every cycle that ends, until teardown.
C10_PollerRearms ==
    /\ [][(timer /\ phase' # "closed") => timer']_vars
    /\ [](phase \in {"ready", "closing"} => timer)
    /\ (phase \in {"ready", "closing"} /\ CycleEnded)
           ~> (CycleStarted \/ phase = "closed")

\* a cycle has raised after setup and the timer is still registered
C10_Witness ==
    /\ phase = "ready"
    /\ last = Event("update_all", <<>>, "raised")
    /\ timer
    /\ InFlightCycles = 0

\* the cycles of a bag that are suspended on the call `pc`
CyclesAt(bag, pc) ==
    BagCardinality([s \in {t \in BagToSet(bag) : t.pc = pc} |-> bag[s]])

\* the awaits of one cycle in program order
Steps ==
    <<"get_hosts_list", "get_config", "get_status", "get_calls_log", "get_disks",
      "get_home_nodes">>

Arrives(pc) == CyclesAt(inflight', pc) > CyclesAt(inflight, pc)
Leaves(pc) == CyclesAt(inflight', pc) < CyclesAt(inflight, pc)

\* C11: within one poll cycle the steps run in the order device-list,
\* sensors, home-devices.  A cycle reaches an await only from the await
\* before it, and a step's notification is sent by the cycle that leaves
\* the last await of that step: "device list updated" when it leaves
\* get_hosts_list, "sensor data updated" when it leaves get_disks, "home
\* device list updated" when it leaves get_home_nodes.
C11_StepsInOrder ==
    [][/\ \A k \in 2..Len(Steps) : Arrives(Steps[k]) => Leaves(Steps[k - 1])
       /\ Arrives(Steps[1]) =>
             /\ last'.op \in {"setup", "update_all"}
             /\ last'.sent = <<>>
       /\ \A k \in 1..Len(Steps) :
             Leaves(Steps[k]) =>
                 \/ k < Len(Steps) /\ Arrives(Steps[k + 1])
                 \/ last'.ended \in {"returned", "raised"}
       /\ Count(last'.sent, signal_device_update) > 0 =>
             /\ Leaves("get_hosts_list")
             /\ last'.op = "update_device_trackers"
       /\ Count(last'.sent, signal_sensor_update) > 0 =>
             /\ Leaves("get_disks")
             /\ last'.sent = <<signal_sensor_update>>
       /\ Count(last'.sent, signal_home_device_update) > 0 =>
             /\ Leaves("get_home_nodes")
             /\ last'.ended = "returned"]_vars

\* a cycle went through its three steps: it returned from the home step,
\* and the caches of the device and sensor steps are filled
C11_Witness ==
    /\ last = Event("update_home_devices", HomeSignals(TRUE), "returned")
    /\ ~denied_once
    /\ SelfMac \in DOMAIN devices
    /\ "rate_down" \in DOMAIN sensors_connection

\* C12: cache upsert is idempotent.  After a device-list step (a home
\* step) has applied a poll result, applying the same result again gives
\* the same cache and finds no new device, and the cache returns, for the
\* id of every record the step upserted, that record.
C12_UpsertIdempotent ==
    /\ [][last'.op = "update_device_trackers" =>
           \A hosts \in HostLists :
             HostsReturn(hosts) =>
                 LET fbx_devices == Append(hosts, SelfRecord)
                     again == DeviceLoop(devices', FALSE, fbx_devices, 1)
                 IN /\ again.cache = devices'
                    /\ ~again.new_device
                    /\ \A i \in DOMAIN fbx_devices :
                          devices'[fbx_devices[i].l2ident] = fbx_devices[i]]_vars
    /\ [][last'.op = "update_home_devices" =>
           \A home_nodes \in HomeNodeLists :
             HomeReturn(home_nodes) =>
                 LET again == HomeLoop(home_devices', FALSE, 0, home_nodes, 1)
                 IN /\ again.cache = home_devices'
                    /\ ~again.new_device]_vars
    /\ [](\A home_nodes \in HomeNodeLists :
             LET once == HomeLoop(home_devices, FALSE, 0, home_nodes, 1)
                 twice == HomeLoop(once.cache, FALSE, 0, home_nodes, 1)
             IN /\ twice.cache = once.cache
                /\ ~twice.new_device
                /\ \A i \in DOMAIN home_nodes :
                      home_nodes[i].category \in SupportedCategories =>
                          once.cache[home_nodes[i].id] = home_nodes[i])

\* a device-list step has applied a result whose ids were all cached, and
\* so has a home step
C12_Witness ==
    /\ last = Event("update_home_devices", HomeSignals(FALSE), "returned")
    /\ HostIds \subseteq DOMAIN devices
    /\ NodeIds \subseteq DOMAIN home_devices

\* C13: upsert replaces and never duplicates.  A device-list step leaves
\* in the cache the ids it held before and the ids of the fetched list
\* (the self-record included), one record per id; the record of a fetched
\* id is the fetched record, field for field and with no field of the
\* record it replaces, and the record of any other id is the one held
\* before.  From an empty cache a poll of one host gives 2 entries, and a
\* second identical poll gives 2 entries.
C13_UpsertReplaces ==
    [][last'.op = "update_device_trackers" =>
       \A hosts \in HostLists :
          HostsReturn(hosts) =>
              LET fbx_devices == Append(hosts, SelfRecord)
                  fetched == {fbx_devices[i].l2ident : i \in DOMAIN fbx_devices}
              IN /\ DOMAIN devices' = DOMAIN devices \cup fetched
                 /\ \A i \in DOMAIN fbx_devices :
                       /\ devices'[fbx_devices[i].l2ident] = fbx_devices[i]
                       /\ DOMAIN devices'[fbx_devices[i].l2ident] =
                              DOMAIN fbx_devices[i]
                 /\ \A id \in DOMAIN devices \ fetched : devices'[id] = devices[id]
                 /\ (Len(hosts) = 1 /\ DOMAIN devices \subseteq fetched) =>
                       Cardinality(DOMAIN devices') = 2]_vars

\* the cache holds two entries, the host and the gateway, after a poll
\* that found neither of them new; the host's record is the one of that
\* poll, which has fewer fields than a record the gateway can return
C13_Witness ==
    /\ last.op = "update_device_trackers"
    /\ last.sent = <<signal_device_update>>
    /\ Cardinality(DOMAIN devices) = 2
    /\ \E id \in HostIds :
          /\ id \in DOMAIN devices
          /\ DOMAIN devices[id] = {"l2ident", "active"}

\* C14: no operation of the router removes a key from the device cache
\* or from the home-device cache: in every step the cached ids only grow,
\* and an id absent from the polled list keeps the record it had.
C14_NoRemoval ==
    [][/\ DOMAIN devices \subseteq DOMAIN devices'
       /\ DOMAIN home_devices \subseteq DOMAIN home_devices'
       /\ \A hosts \in SomeHosts :
             HostsReturn(hosts) =>
                 \A id \in DOMAIN devices \ ({hosts[i].l2ident : i \in DOMAIN hosts}
                                                \cup {SelfMac}) :
                     devices'[id] = devices[id]
       /\ \A home_nodes \in SomeHomes :
             HomeReturn(home_nodes) =>
                 \A id \in DOMAIN home_devices \ {home_nodes[i].id : i \in DOMAIN home_nodes} :
                     home_devices'[id] = home_devices[id]]_vars

\* a host and a home node are cached and a later device-list step, which
\* found no new device, has run
C14_Witness ==
    /\ last = Event("update_device_trackers", DeviceSignals(FALSE), "no")
    /\ HostIds \cap DOMAIN devices # {}
    /\ NodeIds \cap DOMAIN home_devices # {}

\* C15: the poller is the only writer of the home-device cache: no
\* operation of an entity adapter (open, close, stop of a cover with its
\* async_set_value, async_update_signal) changes the content of a record
\* held in router.home_devices.
C15_OnlyPollerWritesCache ==
    [][((\E op \in CoverOps : CoverCall(op)) \/ CoverReply \/ CoverError
            \/ async_update_signal)
       => home_devices' = home_devices]_vars

\* C16: a watcher tick of an entity, at whatever point of the poll cycles
\* and of the other watchers it runs, writes only that entity's
\* _detection and _had_timeout: it leaves router.devices,
\* router.home_devices and the rest of the router alone, and the state of
\* every other entity; of its own entity it changes neither the timer nor
\* the trigger command.
C16_WatcherWritesOwnState ==
    [][\A w \in Watchers :
          (/\ watchers'[w] # watchers[w]
           /\ \/ WatcherTick(w)
              \/ \E node \in EndpointReplies : WatcherReply(w, node)
              \/ WatcherTimeout(w)
              \/ WatcherError(w))
          => /\ devices' = devices
             /\ home_devices' = home_devices
             /\ UNCHANGED <<routerVars, entityVars, adapter, platforms, flow>>
             /\ \A v \in Watchers \ {w} : watchers'[v] = watchers[v]
             /\ watchers'[w].armed = watchers[w].armed
             /\ watchers'[w].command_trigger = watchers[w].command_trigger]_vars

\* one watcher has shown a detection while the other, which has a call in
\* flight, shows none, and two poll cycles are suspended on remote calls
C16_Witness ==
    /\ watchers["pir"].detection = 1
    /\ watchers["dws"].detection = 0
    /\ watchers["dws"].pending > 0
    /\ InFlightCycles = 2

\* the fields of the record of the Freebox itself (router.py 149-158)
SelfFields == {"l2ident", "host_type", "active", "attrs"}

\* C17: no task observes a torn device cache.  Whenever the cache
\* changes, it changes in one step from the cache before a device-list
\* step to the cache with every record of the fetched list (the
\* self-record last) stored whole, and the step's notification is sent in
\* that same step; so every state shows whole records under their own id,
\* and host records never without the self-record that ends each list.
C17_NoTornCache ==
    /\ [][devices' # devices =>
             /\ last'.op = "update_device_trackers"
             /\ Count(last'.sent, signal_device_update) = 1
             /\ \E hosts \in HostLists :
                   LET fbx_devices == Append(hosts, SelfRecord)
                       fetched == {fbx_devices[i].l2ident : i \in DOMAIN fbx_devices}
                   IN /\ DOMAIN devices' = DOMAIN devices \cup fetched
                      /\ \A i \in DOMAIN fbx_devices :
                            devices'[fbx_devices[i].l2ident] = fbx_devices[i]
                      /\ \A id \in DOMAIN devices \ fetched :
                            devices'[id] = devices[id]]_vars
    /\ [](\A id \in DOMAIN devices :
             /\ devices[id].l2ident = id
             /\ \/ id = SelfMac /\ DOMAIN devices[id] = SelfFields
                \/ id # SelfMac /\ \E r \in HostRecords : devices[id] = r)
    /\ [](devices # EmptyMap => SelfMac \in DOMAIN devices)

\* while another cycle is suspended on a remote call, a device-list step
\* has stored a host and the self-record and sent its notifications
C17_Witness ==
    /\ last = Event("update_device_trackers", DeviceSignals(TRUE), "no")
    /\ HostIds \subseteq DOMAIN devices
    /\ SelfMac \in DOMAIN devices
    /\ InFlightCycles = 2

\* C18: on teardown the poller's timer is cancelled before the session to
\* the remote API is closed: while close() is in the API client's close,
\* the timer is not armed.
C18_TimerCancelledBeforeClose == phase = "closing" => ~timer

\* C19: teardown is idempotent.  close() called again after a completed
\* close() returns without raising and without entering the API client's
\* close, and leaves the router as the first close() left it: no client,
\* no timer, the same caches and cycles.
C19_CloseIdempotent ==
    [][/\ CloseAgain =>
             /\ last'.ended = "returned"
             /\ phase' = "closed"
             /\ api' = "None" /\ api = "None"
             /\ timer' = FALSE /\ timer = FALSE
             /\ UNCHANGED <<use_home, inflight, caches, denied_once, entityVars,
                            adapterVars>>
       /\ phase = "closed" => phase' = "closed"]_vars

\* close() has run a second time on the closed router
C19_Witness ==
    /\ phase = "closed"
    /\ last = Event("close_again", <<>>, "returned")
    /\ api = "None"
    /\ ~timer

\* C20: if opening the connection or the first system-config fetch fails,
\* setup raises ConfigEntryNotReady; no poll cycle has run or runs
\* afterwards, no timer is registered and every cache is empty.
C20_SetupFailureNotReady ==
    /\ [][SetupNotReady =>
             /\ phase \in {"open", "get_config"}
             /\ phase' = "not_ready"
             /\ last' = Event("setup", <<>>, "raised")]_vars
    /\ [][phase = "not_ready" => phase' = "not_ready"]_vars
    /\ [](phase = "not_ready" =>
             /\ last = Event("setup", <<>>, "raised")
             /\ ~timer
             /\ inflight = EmptyBag
             /\ devices = EmptyMap
             /\ home_devices = EmptyMap
             /\ disks = EmptyMap
             /\ sensors_temperature = EmptyMap
             /\ sensors_connection = EmptyMap
             /\ call_list = <<>>
             /\ attrs = NoAttrs)

\* setup has raised ConfigEntryNotReady with the client created
C20_Witness ==
    /\ phase = "not_ready"
    /\ api = "open"
    /\ last.ended = "raised"
    /\ InFlightCycles = 0
    /\ devices = EmptyMap

\* C21: over the lifetime of a router, whatever the home poll cycles and
\* however many unsupported nodes a cycle returns, the "Node not
\* supported" diagnostic is logged at most once.
C21_NodeWarningAtMostOnce == node_warnings <= 1

\* C22: every record of the home-device cache has a supported category
\* and is stored under its own id; a node of any other category is never
\* cached and never counts as a new home device: a home step stores the
\* supported nodes of its reply and nothing else, and sends "new home
\* device" only if one of those was not cached.
C22_OnlySupportedCached ==
    /\ [](\A id \in DOMAIN home_devices :
             /\ home_devices[id].category \in SupportedCategories
             /\ home_devices[id].id = id)
    /\ [][last'.op = "update_home_devices" =>
           \A home_nodes \in ManyNodeLists :
             HomeReturn(home_nodes) =>
                 LET supported ==
                         {home_nodes[i].id : i \in
                             {j \in DOMAIN home_nodes :
                                 home_nodes[j].category \in SupportedCategories}}
                 IN /\ DOMAIN home_devices' = DOMAIN home_devices \cup supported
                    /\ Count(last'.sent, signal_home_device_new) > 0 =>
                          supported \ DOMAIN home_devices # {}]_vars

\* a reply with a supported and an unsupported node has been processed:
\* the supported one is cached, the other one was logged and is not
C22_Witness ==
    /\ last.op = "update_home_devices"
    /\ last.ended = "returned"
    /\ node_warnings > 0
    /\ home_devices # EmptyMap
    /\ DOMAIN home_devices # ManyNodeIds

\* C23: every home step whose fetch succeeds sends "home device list
\* updated" exactly once, and "new home device present" exactly once if
\* some supported node id of the result was absent from the home-device
\* cache before the step, and not at all otherwise; it sends nothing else.
C23_HomeStepNotifications ==
    [][last'.op = "update_home_devices" =>
       \A home_nodes \in ManyNodeLists :
          HomeReturn(home_nodes) =>
              LET supported ==
                      {home_nodes[i].id : i \in
                          {j \in DOMAIN home_nodes :
                              home_nodes[j].category \in SupportedCategories}}
                  absent == supported \ DOMAIN home_devices
              IN /\ Count(last'.sent, signal_home_device_update) = 1
                 /\ Count(last'.sent, signal_home_device_new) =
                        (IF absent # {} THEN 1 ELSE 0)
                 /\ Len(last'.sent) = (IF absent # {} THEN 2 ELSE 1)]_vars

\* a home step found every node of its reply cached, or unsupported, and
\* sent the update alone, after an earlier step had cached two nodes
C23_Witness ==
    /\ last = Event("update_home_devices", <<signal_home_device_update>>, "returned")
    /\ Cardinality(DOMAIN home_devices) > 1

\* C25: when home access is not enabled, no poll cycle calls
\* get_home_nodes (none is ever suspended on it, a cycle ends with its
\* sensor step), the home-device cache stays empty, and neither "home
\* device list updated" nor "new home device present" is sent.
C25_HomeDisabled ==
    /\ [](~use_home =>
             /\ CyclesAt(inflight, "get_home_nodes") = 0
             /\ home_devices = EmptyMap
             /\ ~warning_once
             /\ last.op # "update_home_devices"
             /\ Count(last.sent, signal_home_device_update) = 0
             /\ Count(last.sent, signal_home_device_new) = 0)
    /\ [][(~use_home /\ Leaves("get_disks")) =>
             last'.ended \in {"returned", "raised"}]_vars
    /\ [][use_home' = use_home]_vars

\* with home access disabled a cycle started by the timer has ended with
\* its sensor step
C25_Witness ==
    /\ ~use_home
    /\ phase = "ready"
    /\ last = Event("update_sensors", <<signal_sensor_update>>, "returned")
    /\ home_devices = EmptyMap

\* C24: every sensor step whose fetches all succeed sends "sensor data
\* updated" exactly once, and nothing else, whether or not a sensor value,
\* the call log or a disk changed.  It sends it in the step that stores
\* the disk list, which a cycle reaches only after the steps that store
\* the temperatures, the connection values and the call log; none of
\* those steps sends anything.
C24_SensorStepNotification ==
    [][last'.op = "update_sensors" =>
       /\ \A reply \in DiskReplies :
             DisksReturn(reply) =>
                 /\ last'.sent = <<signal_sensor_update>>
                 /\ \A i \in DOMAIN DisksOrEmpty(reply) :
                       disks'[DisksOrEmpty(reply)[i].id] = DisksOrEmpty(reply)[i]
       /\ Count(last'.sent, signal_sensor_update) > 0 =>
             /\ Leaves("get_disks")
             /\ Len(last'.sent) = 1
       /\ Arrives("get_disks") =>
             /\ Leaves("get_calls_log")
             /\ last'.sent = <<>>
             /\ \E calls \in CallLogs : call_list' = calls
       /\ Arrives("get_calls_log") =>
             /\ Leaves("get_status")
             /\ last'.sent = <<>>
             /\ \E connection_datas \in ConnReplies :
                   sensors_connection' = ConnectionSensors(connection_datas)
       /\ Arrives("get_status") =>
             /\ Leaves("get_config")
             /\ last'.sent = <<>>
             /\ \E syst_datas \in SystReplies :
                   \A i \in DOMAIN syst_datas.sensors :
                      "value" \in DOMAIN syst_datas.sensors[i] =>
                          sensors_temperature'[syst_datas.sensors[i].name] =
                              syst_datas.sensors[i].value]_vars

\* a cycle started by the timer has sent the notification although the
\* disk cache is as empty as the first cycle left it
C24_Witness ==
    /\ phase = "ready"
    /\ use_home
    /\ last = Event("update_sensors", <<signal_sensor_update>>, "no")
    /\ disks = EmptyMap
    /\ "cpu" \in DOMAIN sensors_temperature
    /\ "rate_down" \in DOMAIN sensors_connection

\* C29: a disk-list fetch that returns nothing (None) or an empty list is
\* tolerated: the sensor step does not raise, leaves the disk cache as it
\* was and still sends "sensor data updated"; otherwise every returned
\* disk is stored under its id, and the other disks are kept.
C29_EmptyDiskListTolerated ==
    [][last'.op = "update_sensors" =>
       \A reply \in DiskReplies :
          DisksReturn(reply) =>
              LET fbx_disks == reply.value
                  fetched == {fbx_disks[i].id : i \in DOMAIN fbx_disks}
              IN /\ last'.sent = <<signal_sensor_update>>
                 /\ api = "open" => last'.ended # "raised"
                 /\ (reply.is_none \/ fbx_disks = <<>>) => disks' = disks
                 /\ DOMAIN disks' = DOMAIN disks \cup fetched
                 /\ \A i \in DOMAIN fbx_disks : disks'[fbx_disks[i].id] = fbx_disks[i]
                 /\ \A id \in DOMAIN disks \ fetched : disks'[id] = disks[id]]_vars

\* a sensor step that fetched a call log has passed the disk fetch, which
\* returned nothing, and has sent its notification
C29_Witness ==
    /\ last.op = "update_sensors"
    /\ last.sent = <<signal_sensor_update>>
    /\ call_list # <<>>
    /\ disks = EmptyMap

\* the state and the position_set of the cached shutter node
CachedState == get_value(home_devices[1], "signal", "state")
CachedPositionSet == get_value(home_devices[1], "signal", "position_set")
Malformed(state) == state.is_none \/ Len(state.bytes) * 2 # StateHexLen

\* C26: when the decoding of a cover's position state receives a state
\* that is UNSET or of the wrong length, it never raises, and the position
\* it sets is the last known position_set (as the entity presents it,
\* inverted or not), or the midpoint 50 if position_set is at a boundary
\* (0 or 100).
C26_MalformedStateFallsBack ==
    (returned.op \in {"__init__", "stop_cover"} /\ returned.how # "pending"
        /\ Malformed(CachedState))
    => /\ returned.how = "returned"
       /\ returned.value =
              (IF CachedPositionSet \in {0, 100}
               THEN 50
               ELSE Inverted(invert_position(home_devices[1]), CachedPositionSet))

\* C27: an entity whose backing value is UNSET presents an explicit
\* unknown state, never a default, zero or stale boolean: after a watcher
\* read that returned UNSET (the endpoint has no value, or the read timed
\* out), the motion or door sensor's is_on is unknown.
C27_UnsetIsUnknown ==
    [][\A w \in Watchers :
          (\/ \E node \in EndpointReplies :
                 WatcherReply(w, node) /\ ValueOf(node) = VALUE_NOT_SET
           \/ WatcherTimeout(w))
          => is_on(watchers'[w]) = VALUE_NOT_SET]_vars

\* C28: in a run of consecutive timeouts of an entity's watcher reads, no
\* two consecutive timeouts both log a warning: a timeout that follows a
\* timeout which logged one logs none.
C28_EveryOtherTimeoutLogged ==
    [][\A w \in Watchers :
          (WatcherTimeout(w) /\ watchers[w].timed_out /\ watchers[w].logged # "")
          => watchers'[w].logged = ""]_vars

\* C30: subscribers read the shared cache again on notification.  When
\* "home device list updated" is delivered to a battery sensor, the sensor
\* takes the record the cache holds for its node: its state is the
\* battery value of that record and its name starts with that record's
\* label, whatever the record it was created with; and a sensor to which
\* every notification has been delivered holds the cached record.
C30_SubscriberReadsCache ==
    /\ [][async_update_signal =>
             LET cached == home_devices[adapter.node.id]
             IN /\ adapter'.node = cached
                /\ battery_state(adapter') = get_value(cached, "signal", "battery")
                /\ adapter'.name = <<cached.label, adapter.sub_node.label>>]_vars
    /\ []((adapter.exists /\ ~adapter.signalled) =>
             /\ battery_state(adapter) = get_value(home_devices[adapter.node.id], "signal", "battery")
             /\ adapter.name[1] = home_devices[adapter.node.id].label)

\* a poll has replaced the record the sensor was created with (label "a",
\* battery 0) and the notification was delivered: the sensor shows the new
\* label and the new battery value
C30_Witness ==
    /\ adapter.exists
    /\ ~adapter.signalled
    /\ adapter.name = <<"b", "Battery">>
    /\ battery_state(adapter) = MaxValue
    /\ home_devices[1] = BatteryNode("b", MaxValue)

\* C32: if the device-list fetch of a cycle fails, the cycle ends there:
\* its sensor and home steps are not run (no cycle reaches one of their
\* awaits in that step, and the cycle is gone), nothing is sent, and the
\* device, sensor and home-device caches are as they were.
C32_DeviceFetchErrorAborts ==
    [][RemoteError(Suspended("get_hosts_list", NoData)) =>
          /\ UNCHANGED caches
          /\ last'.sent = <<>>
          /\ last'.ended = "raised"
          /\ InFlightCycles' = InFlightCycles - 1
          /\ Leaves("get_hosts_list")
          /\ \A k \in 2..Len(Steps) : ~Arrives(Steps[k])]_vars

\* the device-list fetch of the first cycle failed: the cycle raised, and
\* no cache was ever written
C32_Witness ==
    /\ phase = "setup_error"
    /\ last = Event("update_all", <<>>, "raised")
    /\ devices = EmptyMap
    /\ sensors_connection = EmptyMap
    /\ InFlightCycles = 0

\* C38: setup runs one complete poll cycle (device list, sensors, and
\* home devices when enabled) before it registers the timer: until the
\* first cycle has returned no timer is registered and no second cycle
\* exists, and when setup returns the caches are populated and the timer
\* is registered.
C38_FirstCycleBeforeTimer ==
    /\ [](phase \in {"new", "open", "get_config", "first_poll", "setup_error",
                     "not_ready"} => ~timer)
    /\ [](phase \in {"new", "open", "get_config"} => InFlightCycles = 0)
    /\ [](phase = "first_poll" => InFlightCycles = 1)
    /\ [][phase' = "ready" /\ phase # "ready" =>
             /\ phase = "first_poll"
             /\ timer'
             /\ last'.ended = "returned"
             /\ last'.op = (IF use_home THEN "update_home_devices" ELSE "update_sensors")
             /\ InFlightCycles' = 0
             /\ SelfMac \in DOMAIN devices'
             /\ DOMAIN sensors_connection' = {"rate_down", "rate_up"}
             /\ attrs' # NoAttrs]_vars

\* setup has returned after a first cycle that went through the home
\* step: the timer is registered, no cycle is in flight, the caches hold
\* the gateway, its sensors and a home node
C38_Witness ==
    /\ phase = "ready"
    /\ timer
    /\ InFlightCycles = 0
    /\ last.op = "update_home_devices"
    /\ last.ended = "returned"
    /\ SelfMac \in DOMAIN devices
    /\ home_devices # EmptyMap

\* C31: after an open, close or stop of the cover has completed, when the
\* entity handles "home device list updated" for a poll that replaced its
\* node's record, the state it presents (is_closed) is the state derived
\* from the record now cached.
C31_ReconciledOnPoll ==
    [][returned.op \in CoverOps /\ returned.how = "returned" /\ async_update_signal =>
          is_closed(adapter') =
              is_closed([state |-> convert_state(
                            get_value(home_devices'[adapter'.node.id],
                                      "signal", "state"))])]_vars

\* C33: for a state that decodes to 118 hex digits and a position_set in
\* 0..100, update_current_position (run by the constructor and by
\* async_stop_cover) returns and assigns: 100 when the byte at hex digits
\* 100-101 is 00; 0 when it is c8 (200); otherwise position_set (100 -
\* position_set when inverted) if 0 < position_set < 100, else 50.  The
\* position is in 0..100.
C33_DecodeTable ==
    (/\ returned.op \in {"__init__", "stop_cover"}
     /\ returned.how # "pending"
     /\ ~Malformed(CachedState)
     /\ CachedPositionSet \in 0..100)
    => LET marker == CachedState.bytes[51]
           position_set == CachedPositionSet
       IN /\ returned.how = "returned"
          /\ returned.value \in 0..100
          /\ returned.value =
                 IF marker = 0 THEN 100
                 ELSE IF marker = 200 THEN 0
                 ELSE IF 0 < position_set /\ position_set < 100
                      THEN IF invert_position(home_devices[1])
                           THEN 100 - position_set ELSE position_set
                      ELSE 50

\* async_stop_cover decoded a well-formed state whose marker is c8: 0
C33_Witness ==
    /\ returned.op = "stop_cover"
    /\ returned.how = "returned"
    /\ ~Malformed(CachedState)
    /\ CachedState.bytes[51] = 200
    /\ CachedPositionSet = 30
    /\ returned.value = 0

\* C34: for every requested position p in 0..100 and both inversion
\* settings, the value async_set_cover_position sends is 100 - p when
\* inverted and p otherwise, and update_current_position maps that value,
\* read as position_set with a state of the wrong length, back to p.  When
\* async_set_cover_position, async_open_cover or async_close_cover has
\* returned, the position presented is p, 100 or 0.
C34_PositionRoundTrip ==
    /\ [][entity.pc = "idle" /\ entity'.pc = "set_cover_position" =>
              LET p == adapter'.requested
                  sent == home_calls'.last.value
                  invert == adapter.invert_position
              IN /\ p \in Positions
                 /\ ShutterMoveCall("set_cover_position", p)
                 /\ sent = (IF invert THEN 100 - p ELSE p)
                 /\ update_current_position(Blob(StateHexLen \div 2 - 1, 0),
                                            sent, invert).position = p]_vars
    /\ [][ShutterMoveReply =>
              adapter'.current_position =
                  (IF entity.pc = "open_cover" THEN 100
                   ELSE IF entity.pc = "close_cover" THEN 0
                   ELSE adapter.requested)]_vars

\* async_set_cover_position(30) has returned on a roller shutter, which
\* was sent 70 and presents 30
C34_Witness ==
    /\ adapter.exists
    /\ adapter.invert_position
    /\ returned = Ret("set_cover_position", "returned", 30, TRUE, "")
    /\ home_calls.last.value = 70
    /\ adapter.current_position = 30

\* C35: when a tick of a motion or door watcher ends with a read that
\* returned a boolean v, the entity's is_on is not v; and a tick that ends
\* writes the entity state only if it changed the value presented (every
\* end of a tick: a read that returned, timed out or raised, and the tick
\* of an entity without trigger command).
C35_IsOnNegatesRead ==
    [][\A w \in Watchers :
          /\ watchers'[w].pending < watchers[w].pending =>
                /\ \A node \in EndpointReplies :
                      (WatcherReply(w, node) /\ ValueOf(node) \in {0, 1})
                      => is_on(watchers'[w]) = 1 - ValueOf(node)
                /\ watchers'[w].written
                       = (is_on(watchers'[w]) # is_on(watchers[w]))
          /\ (WatcherTick(w) /\ IsNotSet(watchers[w].command_trigger)) =>
                /\ ~watchers'[w].written
                /\ is_on(watchers'[w]) = is_on(watchers[w])]_vars

\* a read of the motion sensor returned true while it presented true: it
\* presents false and wrote its state; a read of the door sensor returned
\* true while it presented false: it wrote nothing
C35_Witness ==
    /\ watchers["pir"].written
    /\ is_on(watchers["pir"]) = 0
    /\ watchers["pir"].pending = 0
    /\ ~watchers["pir"].timed_out
    /\ watchers["dws"].command_trigger = 0
    /\ ~watchers["dws"].written
    /\ is_on(watchers["dws"]) = 0
    /\ watchers["dws"].logged = ""
    /\ watchers["dws"].pending = 0

\* C36: each platform builds entities for a home node id in at most one
\* pass of add_entities: only add_entities changes what a platform holds,
\* a pass builds nothing for an id that is in the platform's tracked set,
\* whatever record the cache now holds for it, and no id is ever built
\* for twice.
C36_EntitiesBuiltOnce ==
    /\ [](\A p \in PlatformNames : \A id \in DOMAIN home_devices :
             Built(platforms, p, id) <= 1)
    /\ [][\A p \in PlatformNames :
             platforms'[p] # platforms[p] =>
                 /\ add_entities(p)
                 /\ platforms[p].tracked \subseteq platforms'[p].tracked
                 /\ \A id \in platforms[p].tracked :
                       Built(platforms', p, id) = Built(platforms, p, id)]_vars

\* the binary_sensor and camera platforms have each built once for node 1,
\* whose record was a motion sensor when the one saw it and is a camera
\* now, and the cover platform has built nothing for it
C36_Witness ==
    /\ Built(platforms, "binary_sensor", 1) = 1
    /\ Built(platforms, "camera", 1) = 1
    /\ platforms["cover"].seen = {1}
    /\ platforms["cover"].tracked = {}
    /\ home_devices[1].category = "camera"

\* C37: a pass of the sensor platform's add_entities leaves every cached
\* node id tracked, and builds a battery entity for an id it had not
\* tracked exactly when the cached record has a battery endpoint with a
\* value; an id that is tracked without a battery entity never gets one,
\* whatever later polls supply.
C37_BatteryOnlyAtFirstSight ==
    /\ [](platforms["sensor"].seen = platforms["sensor"].tracked)
    /\ [][add_entities("sensor") =>
             /\ DOMAIN home_devices \subseteq platforms'["sensor"].tracked
             /\ \A id \in DOMAIN home_devices \ platforms["sensor"].tracked :
                   Built(platforms', "sensor", id) =
                       (IF HasSignalValue(home_devices[id], "battery") THEN 1 ELSE 0)]_vars
    /\ [][\A id \in platforms["sensor"].tracked :
             Built(platforms, "sensor", id) = 0
                 => Built(platforms', "sensor", id) = 0]_vars

\* node 1 is tracked by the sensor platform without a battery entity, and
\* the record a later poll cached for it has a battery value
C37_Witness ==
    /\ 1 \in platforms["sensor"].seen
    /\ 1 \in platforms["sensor"].tracked
    /\ Built(platforms, "sensor", 1) = 0
    /\ HasSignalValue(home_devices[1], "battery")
    /\ last = Event("update_home_devices", HomeSignals(FALSE), "returned")

\* C39: every client check_freebox_permission called open on is closed
\* when the call returns: when the config flow gets the status, whatever
\* it is, no client is left open or opening, and a call that returns to
\* the call awaiting it has closed its own client.
C39_ClientsClosedOnReturn ==
    /\ [](flow.status # VALUE_NOT_SET =>
             /\ flow.stack = <<>>
             /\ flow.clients # <<>>
             /\ \A i \in DOMAIN flow.clients : flow.clients[i] = "closed")
    /\ [][Len(flow'.stack) < Len(flow.stack) =>
             /\ flow'.clients[Top.fbx] = "closed"
             /\ \A i \in DOMAIN flow.clients :
                   i > Top.fbx => flow'.clients[i] = "closed"]_vars

\* the first attempt got an authorization error after its client was
\* open, the second one a connection error: both clients are closed and
\* the status is returned
C39_Witness ==
    /\ flow.status = STATUS_PERMISSION_ERROR
    /\ flow.errors = "cannot_connect"
    /\ flow.resets = 1
    /\ flow.clients = <<"closed", "closed">>

\* C40: an authorization error makes check_freebox_permission delete the
\* token file and, in the first call only, try once more; an authorization
\* error of the second attempt starts no third one, records
\* register_failed and returns STATUS_PERMISSION_ERROR.  No call builds
\* more than two clients.
C40_RetriesOnce ==
    /\ [](Len(flow.clients) <= 2 /\ Len(flow.stack) <= 2 /\ flow.resets <= 2)
    /\ [][FlowReset =>
             /\ ~flow'.token
             /\ flow'.resets = flow.resets + 1
             /\ IF Len(flow.stack) = 1
                THEN /\ Len(flow'.stack) = 2
                     /\ Len(flow'.clients) = 2
                     /\ flow'.errors = flow.errors
                ELSE /\ Len(flow'.stack) = 2
                     /\ Len(flow'.clients) = 2
                     /\ flow'.errors = "register_failed"
                     /\ flow'.stack[2].pc = "close"
                     /\ flow'.stack[2].result = STATUS_PERMISSION_ERROR]_vars
    /\ []((flow.status # VALUE_NOT_SET /\ flow.resets = 2) =>
             /\ flow.status = STATUS_PERMISSION_ERROR
             /\ flow.errors = "register_failed")

\* both attempts got an authorization error: the token file was deleted,
\* two clients were built and closed, register_failed is recorded and the
\* permission-error status returned
C40_Witness ==
    /\ flow.status = STATUS_PERMISSION_ERROR
    /\ flow.errors = "register_failed"
    /\ flow.resets = 2
    /\ ~flow.token
    /\ flow.clients = <<"closed", "closed">>
=============================================================================
